---- MODULE Spec2Model ----
(***************************************************************************)
(* Model of the tg-assistant media pipeline: file-name parsing, the        *)
(* segmenter, the album builder, the album upload (concurrent and          *)
(* sequential) and the batch loops of cmd/uploader and cmd/server.         *)
(*                                                                         *)
(* Strings are sequences of one-character strings.                         *)
(***************************************************************************)
EXTENDS Integers, Sequences, FiniteSets, TLC

VARIABLES
    \* ---- file-name parsing (ParseFilename, BuildCaption)
    filename,      \* the name handed to ParseFilename
    parsePc,       \* "input" | "parsed"
    parseOut,      \* what ParseFilename (and BuildCaption) returned
    \* ---- preview grid (ComposeGrid)
    gridIn,        \* [frames, cols, rows]: len(framePaths), cols, rows
    gridPc,        \* "input" | "returned"
    gridOut,       \* [err, effects]
    \* ---- relocation of one file (MoveFile, moveOrCopy)
    moveIn,        \* [impl, additional: number of additionalFiles]
    movePc,        \* "rename" | "open" | "create" | "copy" | "sync" | "remove" | "returned"
    moveSt,        \* [file, src, dst, ops, err, log]; file 0 is the original
    \* ---- ExtractFrames
    frameIn,       \* [impl, count, duration]
    framePc,       \* "call" | "loop" | "returned"
    frameSt,       \* [i, framePaths, onDisk, failedAt, ret, err]
    \* ---- ui.UploadProgress
    progIn,        \* [impl, total: upload ID -> Total of its reports]
    mu,            \* UploadProgress.mu: "free" or the goroutine holding it
    thr,           \* goroutine -> [pc, st: the ProgressState of its callback]
    reg,           \* [bars, last, added, seen, since, high, calls]
    \* ---- segmenter (SplitVideo, splitVideo, splitVideoV2)
    splitIn,       \* [impl, statOk, fileSize, maxSize]
    splitPc,       \* "input" | "loop" | "returned"
    splitOut,      \* [status, plan, effects, cur, total, segmentTime, rate, durSec,
                   \*  bitrate, rateCmdOk, rateOut]
    \* ---- album upload (SendMultiMedia goroutines, SendMediaGroup loop)
    sendImpl,      \* "multi" (Client.SendMultiMedia) | "group" (MTProtoClient.SendMediaGroup) | "none"
    items,         \* the []MediaItem argument
    sendPc,        \* "idle" | "spawned" | "joined" | "loop" | "returned" | "panicked"
    task,          \* task[i]: state of the upload goroutine of item i
    album,         \* the request under construction: handles by position
    errs,          \* number of errors buffered in the errs channel
    request,       \* the album-send request: [issued, MultiMedia, updates]
    sendResult,    \* [status, id] returned by the call
    lateFirst,     \* history: some item finished while a lower-index item was still running
    netCalls,      \* number of transport calls the upload call has issued
    \* ---- batch loop (cmd/uploader main, cmd/server main)
    cfg,           \* [main: "uploader" | "server", MaxSize, CleanupTempDir]
    files,         \* result of ScanFiles
    idx,           \* loop position in files (1-based)
    pc,            \* position of the main flow inside the iteration
    stats,         \* fileprocessor.Stats
    srcDir,        \* names present in the source directory
    doneDir,       \* relocated originals: [name, id, dest]
    cur,           \* per-iteration locals (name, tag, description, size, plan, media sent, ...)
    tempDir,       \* whether the temporary working directory exists
    failed         \* names the loop recorded as failed

parseVars == <<filename, parsePc, parseOut>>
splitVars == <<splitIn, splitPc, splitOut>>
sendVars  == <<sendImpl, items, sendPc, task, album, errs, request, sendResult, lateFirst, netCalls>>
batchVars == <<cfg, files, idx, pc, stats, srcDir, doneDir, cur, tempDir, failed>>
gridVars  == <<gridIn, gridPc, gridOut>>
moveVars  == <<moveIn, movePc, moveSt>>
frameVars == <<frameIn, framePc, frameSt>>
progVars  == <<progIn, mu, thr, reg>>
auxVars   == <<moveVars, frameVars, progVars>>
pureVars  == <<parseVars, gridVars, auxVars>>
vars == <<pureVars, splitVars, sendVars, batchVars>>

(***************************************************************************)
(* Bounds                                                                  *)
(***************************************************************************)
MaxNameLen == 6
\* segmenter inputs: file sizes 0..MaxSize, limits -1..MaxSize
MaxSize == 3
\* the external utility leaves at most MaxProduced + 1 segment files
MaxProduced == 3
\* probed durations 0..MaxDur, probed bitrates 0..MaxRate
MaxDur == 2
MaxRate == 2
\* iterations of the cutting loop of splitVideo
MaxLoop == 3
\* albums handed directly to the upload calls hold at most MaxItems items
MaxItems == 3
\* message ids in the platform's responses: 1..MaxId (0: no message in the response)
MaxId == 1
\* a message id of more than one digit
BigId == 12
\* ComposeGrid is called with 0..MaxFrames frames and dimensions -1..MaxDim
MaxFrames == 4
MaxDim == 2
MaxDerived == 2
MaxCount == 4
MaxUploads == 2
MaxBytes == 2
MaxCalls == 2
\* a batch scans at most MaxFiles files
MaxFiles == 1
\* in a batch the external utility leaves 0..MaxParts segment files, or one of
\* the over-limit counts AlbumLimit and AlbumLimit + 3
MaxParts == 1
\* the file sizes of a batch are 1 and LargeSize; with half a gigabyte as
\* the unit LargeSize is a video of 6.5 GB
LargeSize == 13

(***************************************************************************)
(* Program constants                                                       *)
(***************************************************************************)
\* Telegram's limit on the items of one media group
AlbumLimit == 10

(***************************************************************************)
(* Strings                                                                 *)
(***************************************************************************)
Chars == {"a", "_", "."}

RECURSIVE StringsUpTo(_)
StringsUpTo(n) ==
    IF n = 0 THEN {<<>>}
    ELSE LET shorter == StringsUpTo(n - 1)
         IN  shorter \cup {Append(s, c) : s \in {t \in shorter : Len(t) = n - 1}, c \in Chars}

\* strings.Index for a one-character separator: first position, 0 when absent
IndexOf(s, c) ==
    IF \E i \in 1..Len(s) : s[i] = c
    THEN CHOOSE i \in 1..Len(s) : s[i] = c /\ \A j \in 1..(i - 1) : s[j] # c
    ELSE 0

\* strings.LastIndex for a one-character separator
LastIndexOf(s, c) ==
    IF \E i \in 1..Len(s) : s[i] = c
    THEN CHOOSE i \in 1..Len(s) : s[i] = c /\ \A j \in (i + 1)..Len(s) : s[j] # c
    ELSE 0

HasSuffix(s, suf) ==
    /\ Len(suf) <= Len(s)
    /\ SubSeq(s, Len(s) - Len(suf) + 1, Len(s)) = suf

\* strings.TrimSuffix
TrimSuffix(s, suf) ==
    IF HasSuffix(s, suf) THEN SubSeq(s, 1, Len(s) - Len(suf)) ELSE s

\* filepath.Ext on a name without path separators: from the last dot to the end
Ext(name) ==
    LET i == LastIndexOf(name, ".")
    IN  IF i = 0 THEN <<>> ELSE SubSeq(name, i, Len(name))

\* fmt.Sprintf("%d", n) for n >= 0
Digits == <<"0", "1", "2", "3", "4", "5", "6", "7", "8", "9">>

RECURSIVE Itoa(_)
Itoa(n) == IF n < 10 THEN <<Digits[n + 1]>>
           ELSE Append(Itoa(n \div 10), Digits[(n % 10) + 1])

\* strings.TrimSpace for the white space of a command's output
WhiteSpace == {" ", "\n"}

RECURSIVE TrimSpace(_)
TrimSpace(s) ==
    IF Len(s) > 0 /\ s[1] \in WhiteSpace THEN TrimSpace(Tail(s))
    ELSE IF Len(s) > 0 /\ s[Len(s)] \in WhiteSpace THEN TrimSpace(SubSeq(s, 1, Len(s) - 1))
    ELSE s

IsDigit(c) == \E d \in 1..10 : Digits[d] = c

RECURSIVE Atoi(_)
Atoi(s) ==
    IF Len(s) = 0 THEN 0
    ELSE Atoi(SubSeq(s, 1, Len(s) - 1)) * 10
         + ((CHOOSE d \in 1..10 : Digits[d] = s[Len(s)]) - 1)

\* strconv.ParseInt(s, 10, 64) on short strings: an optional sign and at least
\* one decimal digit, anything else is an error
ParseInt(s) ==
    LET signed == Len(s) > 0 /\ s[1] \in {"+", "-"}
        body == IF signed THEN Tail(s) ELSE s
    IN  IF Len(body) = 0 \/ \E i \in 1..Len(body) : ~IsDigit(body[i])
        THEN [err |-> TRUE, value |-> 0]
        ELSE [err |-> FALSE,
              value |-> IF signed /\ s[1] = "-" THEN 0 - Atoi(body) ELSE Atoi(body)]

\* strings.ReplaceAll(s, "_", " ")
ReplaceAll(s, old, new) == [i \in 1..Len(s) |-> IF s[i] = old THEN new ELSE s[i]]

\* a split at the last separator instead of the first
SplitN2AtLast(s, sep) ==
    LET i == LastIndexOf(s, sep)
    IN  IF i = 0 THEN <<s>> ELSE <<SubSeq(s, 1, i - 1), SubSeq(s, i + 1, Len(s))>>

\* strings.SplitN(s, sep, 2): split at the first separator only
SplitN2(s, sep) ==
    LET i == IndexOf(s, sep)
    IN  IF i = 0 THEN <<s>> ELSE <<SubSeq(s, 1, i - 1), SubSeq(s, i + 1, Len(s))>>

(***************************************************************************)
(* Paths: the original file, segment i in the temporary directory, and the *)
(* preview grid in the temporary directory                                 *)
(***************************************************************************)
Range(seq) == {seq[k] : k \in 1..Len(seq)}

Orig == [kind |-> "orig", n |-> 0]
Part(i) == [kind |-> "part", n |-> i]
Preview == [kind |-> "preview", n |-> 0]

(***************************************************************************)
(* FileCatalog: ParseFilename, BuildCaption                                *)
(***************************************************************************)
\* a parse that accepts an empty tag or description
ParseFilenameAllowEmpty(name) ==
    LET nameWithoutExt == TrimSuffix(name, Ext(name))
        parts == SplitN2(nameWithoutExt, "_")
    IN  IF Len(parts) < 2
        THEN [err |-> TRUE, tag |-> <<>>, description |-> <<>>]
        ELSE [err |-> FALSE, tag |-> parts[1], description |-> parts[2]]

ParseFilename(name) ==
    LET nameWithoutExt == TrimSuffix(name, Ext(name))
        parts == SplitN2(nameWithoutExt, "_")
    IN  IF Len(parts) < 2
        THEN [err |-> TRUE, tag |-> <<>>, description |-> <<>>]
        ELSE IF parts[1] = <<>> \/ parts[2] = <<>>
             THEN [err |-> TRUE, tag |-> <<>>, description |-> <<>>]
             ELSE [err |-> FALSE, tag |-> parts[1], description |-> parts[2]]

BuildCaption(tag, description) ==
    <<"#">> \o tag \o <<" ">> \o ReplaceAll(description, "_", " ")

(***************************************************************************)
(* FileCatalog: ScanFiles, IsVideoFile                                     *)
(***************************************************************************)
\* the characters of the batch's file names in byte order (sort.Strings)
ByteOrder == <<".", "0", "1", "2", "3", "4", "5", "6", "7", "8", "9", "M", "P", "_",
               "a", "b", "d", "g", "j", "m", "n", "p", "s", "t", "v">>

Rank(c) == CHOOSE i \in 1..Len(ByteOrder) : ByteOrder[i] = c

\* s < t for Go strings
Less(s, t) ==
    \E k \in 0..Len(s) :
        /\ k <= Len(t)
        /\ \A i \in 1..k : s[i] = t[i]
        /\ \/ (k = Len(s) /\ k < Len(t))
           \/ (k < Len(s) /\ k < Len(t) /\ Rank(s[k + 1]) < Rank(t[k + 1]))

\* the subdirectory of the batches' source directory
SubDirs == {<<"m">>}

\* entry.IsDir()
IsDir(entry) == entry \in SubDirs

\* every entry taken for a file
AllEntries(dir) == dir
\* "if !entry.IsDir() { files = append(files, entry.Name()) }"
NonDirs(dir) == {entry \in dir : ~IsDir(entry)}

\* os.ReadDir, the filter on files and sort.Strings
ScanFiles(dir) ==
    LET fs == NonDirs(dir)
    IN  CHOOSE f \in [1..Cardinality(fs) -> fs] :
            \A i, j \in 1..Cardinality(fs) : i < j => Less(f[i], f[j])

\* strings.ToLower
ToLower(s) == [i \in 1..Len(s) |-> IF s[i] = "M" THEN "m" ELSE IF s[i] = "P" THEN "p" ELSE s[i]]

VideoExts == {<<".", "m", "p", "4">>, <<".", "a", "v", "i">>, <<".", "m", "o", "v">>,
              <<".", "m", "k", "v">>, <<".", "w", "e", "b", "m">>, <<".", "f", "l", "v">>}

IsVideoFile(name) == ToLower(Ext(name)) \in VideoExts

\* the file names of the batches
Catalogue == {<<"t", "_", "a", "_", "b", ".", "m", "p", "4">>,
              <<"n", ".", "m", "p", "4">>,
              <<"_", "d", ".", "m", "p", "4">>,
              <<"t", "_", ".", "m", "p", "4">>,
              <<"p", "_", "a", "_", "b", ".", "j", "p", "g">>,
              <<"d", "_", "a", ".", "b">>,
              <<"v", "_", "d", ".", "M", "P", "4">>}

(***************************************************************************)
(* AlbumBuilder: the item-count check and the media group of ProcessVideo  *)
(***************************************************************************)
\* a check that forgets the preview item
TooManyParts(numVideoParts) == numVideoParts > AlbumLimit

\* video.ValidateChunkCount (cmd/uploader)
ValidateChunkCount(numVideoParts) == 1 + numVideoParts > AlbumLimit

\* "if 1+len(videoParts) > 10" of video.ProcessVideo (cmd/server)
TooManyItems(numVideoParts) == 1 + numVideoParts > AlbumLimit

\* fmt.Sprintf("#%s %s", tag, strings.ReplaceAll(description, "_", " "))
BaseCaption(tag, description) ==
    <<"#">> \o tag \o <<" ">> \o ReplaceAll(description, "_", " ")

\* an album that repeats the caption on every item
BuildAlbumCaptionAll(tag, description, videoParts) ==
    <<[FilePath |-> Preview, MediaType |-> "photo", Caption |-> BaseCaption(tag, description)]>>
    \o [k \in 1..Len(videoParts) |->
          [FilePath |-> videoParts[k], MediaType |-> "video",
           Caption |-> BaseCaption(tag, description)]]

\* an album without preview for a video that was not split
BuildAlbumUnsplitAlone(tag, description, videoParts) ==
    IF videoParts = <<Orig>>
    THEN <<[FilePath |-> Orig, MediaType |-> "video", Caption |-> BaseCaption(tag, description)]>>
    ELSE <<[FilePath |-> Preview, MediaType |-> "photo",
            Caption |-> BaseCaption(tag, description)]>>
         \o [k \in 1..Len(videoParts) |->
               [FilePath |-> videoParts[k], MediaType |-> "video", Caption |-> <<>>]]

\* "Step 4: Build media group" of ProcessVideo: the preview photo with the
\* caption, then one video item with empty caption per part
BuildAlbum(tag, description, videoParts) ==
    <<[FilePath |-> Preview, MediaType |-> "photo", Caption |-> BaseCaption(tag, description)]>>
    \o [k \in 1..Len(videoParts) |->
          [FilePath |-> videoParts[k], MediaType |-> "video", Caption |-> <<>>]]


(***************************************************************************)
(* ThumbnailGrid: ComposeGrid.  A call returns [err, effects], effects the *)
(* operations it performed in order: "load" (loadImage), "draw" (Scale),   *)
(* "create" (os.Create of the output) and "encode" (jpeg.Encode).          *)
(***************************************************************************)
\* the loop "for i, framePath := range framePaths": load and draw each frame;
\* loadFail is the position of the first frame that fails to load, 0 for none
DrawFrames(n, loadFail) ==
    IF loadFail \in 1..n
    THEN [err |-> TRUE,
          effects |-> [k \in 1..(2 * loadFail - 1) |-> IF k % 2 = 1 THEN "load" ELSE "draw"]]
    ELSE [err |-> FALSE,
          effects |-> [k \in 1..(2 * n) |-> IF k % 2 = 1 THEN "load" ELSE "draw"]]

\* a grid that accepts more frames than cells
ComposeGridAtLeast(nFrames, cols, rows, e) ==
    IF nFrames = 0 THEN [err |-> TRUE, effects |-> <<>>]
    ELSE IF cols <= 0 \/ rows <= 0 THEN [err |-> TRUE, effects |-> <<>>]
    ELSE IF nFrames < cols * rows THEN [err |-> TRUE, effects |-> <<>>]
    ELSE IF ~e.firstOk THEN [err |-> TRUE, effects |-> <<"load">>]
    ELSE LET d == DrawFrames(nFrames, e.loadFail)
         IN  IF d.err THEN [err |-> TRUE, effects |-> <<"load">> \o d.effects]
             ELSE IF ~e.createOk
             THEN [err |-> TRUE, effects |-> <<"load">> \o d.effects \o <<"create">>]
             ELSE [err |-> ~e.encodeOk,
                   effects |-> <<"load">> \o d.effects \o <<"create", "encode">>]

\* video.ComposeGrid on nFrames frame paths; e = [firstOk, loadFail, createOk, encodeOk]
ComposeGrid(nFrames, cols, rows, e) ==
    IF nFrames = 0 THEN [err |-> TRUE, effects |-> <<>>]
    ELSE IF cols <= 0 \/ rows <= 0 THEN [err |-> TRUE, effects |-> <<>>]
    ELSE IF nFrames # cols * rows THEN [err |-> TRUE, effects |-> <<>>]
    ELSE IF ~e.firstOk THEN [err |-> TRUE, effects |-> <<"load">>]
    ELSE LET d == DrawFrames(nFrames, e.loadFail)
         IN  IF d.err THEN [err |-> TRUE, effects |-> <<"load">> \o d.effects]
             ELSE IF ~e.createOk
             THEN [err |-> TRUE, effects |-> <<"load">> \o d.effects \o <<"create">>]
             ELSE [err |-> ~e.encodeOk,
                   effects |-> <<"load">> \o d.effects \o <<"create", "encode">>]

(***************************************************************************)
(* Segmenter.  A call returns [status, plan, effects]: status is "ok",     *)
(* "err" or "panic" (a run-time panic ends the process), plan the list of  *)
(* segment paths and effects the file-system and subprocess operations     *)
(* the call attempted, in order.                                           *)
(***************************************************************************)
SegOk(plan, effects) ==
    [status |-> "ok", plan |-> plan, effects |-> effects, segmentTime |-> 0,
     rate |-> 0]
SegErr(effects) ==
    [status |-> "err", plan |-> <<>>, effects |-> effects, segmentTime |-> 0,
     rate |-> 0]
SegPanic(effects) ==
    [status |-> "panic", plan |-> <<>>, effects |-> effects, segmentTime |-> 0,
     rate |-> 0]

\* the quotient rounded down instead of up
FloorDiv(a, b) == a \div b

\* int(math.Ceil(float64(a) / float64(b))) for a >= 0, b > 0
CeilDiv(a, b) == (a + b - 1) \div b

\* the chunk files found by probing part000, part001, ... up to limit probes,
\* stopping at the first missing one
CollectChunks(produced, limit) ==
    LET k == CHOOSE k \in 0..limit :
                 /\ \A i \in 0..(k - 1) : i \in produced
                 /\ (k = limit \/ k \notin produced)
    IN  [i \in 1..k |-> Part(i - 1)]

\* the no-op test without the "no limit" case
NoSplitNeededIgnoringZero(maxSize, fileSize) == fileSize <= maxSize

\* the no-op test shared by the three segmenters
NoSplitNeeded(maxSize, fileSize) == maxSize <= 0 \/ fileSize <= maxSize

\* video.SplitVideo; e = [lookOk, mkdirOk, cmdOk, produced]
SplitVideo(statOk, fileSize, maxSize, e) ==
    IF ~statOk THEN SegErr(<<"stat">>)
    ELSE IF NoSplitNeeded(maxSize, fileSize) THEN SegOk(<<Orig>>, <<"stat">>)
    ELSE IF ~e.lookOk THEN SegErr(<<"stat", "lookpath">>)
    ELSE IF ~e.mkdirOk THEN SegErr(<<"stat", "lookpath", "mkdir">>)
    ELSE IF ~e.cmdOk THEN SegErr(<<"stat", "lookpath", "mkdir", "ffmpeg">>)
    ELSE LET numChunks == CeilDiv(fileSize, maxSize)
             chunks == CollectChunks(e.produced, numChunks + 2)
             eff == <<"stat", "lookpath", "mkdir", "ffmpeg">>
         IN  IF Len(chunks) = 0 THEN SegErr(eff) ELSE SegOk(chunks, eff)

\* the loop "for _, tsFile := range tsFiles" of splitVideoV2: remux each .ts
\* file in glob order; e.remuxFail is the position of the first failing remux, 0 for none
RemuxAll(tsCount, remuxFail) ==
    IF remuxFail \in 1..tsCount
    THEN [err |-> TRUE, plan |-> <<>>, runs |-> remuxFail]
    ELSE [err |-> FALSE, plan |-> [i \in 1..tsCount |-> Part(i - 1)], runs |-> tsCount]

Repeat(x, n) == [i \in 1..n |-> x]

\* splitVideoV2, from "if bitrate <= 0" to "if segmentTime < 1": the bitrate
\* estimate and the segment time in seconds; an integer division by zero panics
SegmentTime(fileSize, maxSize, durSec, probedRate) ==
    IF probedRate <= 0 /\ durSec = 0
    THEN [panic |-> TRUE, bitrate |-> 0, segmentTime |-> 0]
    ELSE LET bitrate == IF probedRate <= 0 THEN (fileSize * 8) \div durSec ELSE probedRate
         IN  IF bitrate = 0
             THEN [panic |-> TRUE, bitrate |-> 0, segmentTime |-> 0]
             ELSE [panic |-> FALSE, bitrate |-> bitrate,
                   segmentTime |-> IF (maxSize * 8) \div bitrate < 1 THEN 1
                                   ELSE (maxSize * 8) \div bitrate]

\* the result r of a call that handed t.segmentTime to GenerateTSFiles, logging t.bitrate
Timed(r, t) ==
    [status |-> r.status, plan |-> r.plan, effects |-> r.effects,
     segmentTime |-> t.segmentTime, rate |-> t.bitrate]

\* a line of a command's output
ProbeLine(s) == Append(s, "\n")

\* ffmpeg.GetVideoBitrate: ffprobe's exit and output, TrimSpace, ParseInt
GetVideoBitrate(cmdOk, output) ==
    IF ~cmdOk THEN [err |-> TRUE, bitrate |-> 0]
    ELSE LET r == ParseInt(TrimSpace(output))
         IN  IF r.err THEN [err |-> TRUE, bitrate |-> 0]
             ELSE [err |-> FALSE, bitrate |-> r.value]

\* strings.HasPrefix
HasPrefix(s, prefix) ==
    Len(s) >= Len(prefix) /\ SubSeq(s, 1, Len(prefix)) = prefix

\* fmt.Sprintf("%03d", i)
Pad3(i) == Repeat("0", IF Len(Itoa(i)) >= 3 THEN 0 ELSE 3 - Len(Itoa(i))) \o Itoa(i)

\* the file ffmpeg writes for segment i of tmpPattern basename+"_%03d.ts"
TsName(basename, i) == basename \o <<"_">> \o Pad3(i) \o <<".", "t", "s">>

\* the segment files one GenerateTSFiles call writes for produced segments
WrittenTs(basename, produced) == {TsName(basename, i) : i \in 0..(produced - 1)}

\* filepath.Match of a name against basename+"_*"+".ts"
MatchesTsGlob(name, basename) ==
    /\ HasPrefix(name, basename \o <<"_">>)
    /\ HasSuffix(name, <<".", "t", "s">>)
    /\ Len(name) >= Len(basename) + 4

\* sort.Strings
RECURSIVE SortStrings(_)
SortStrings(names) ==
    IF names = {} THEN <<>>
    ELSE LET first == CHOOSE x \in names : \A y \in names \ {x} : Less(x, y)
         IN  <<first>> \o SortStrings(names \ {first})

\* tsFiles of splitVideoV2: filepath.Glob over the output directory, which
\* holds the files just written and those left by earlier calls
TsFiles(basename, produced, stale) ==
    SortStrings({n \in WrittenTs(basename, produced) \cup stale : MatchesTsGlob(n, basename)})

\* video.splitVideoV2; e = [mkdirOk, durOk, durSec,
\* rateCmdOk, rateOut, genOk, tsCount, remuxFail]; e.tsCount is the number of
\* files the glob returns
splitVideoV2(statOk, fileSize, maxSize, e) ==
    IF ~statOk THEN SegErr(<<"stat">>)
    ELSE IF NoSplitNeeded(maxSize, fileSize) THEN SegOk(<<Orig>>, <<"stat">>)
    ELSE IF ~e.mkdirOk THEN SegErr(<<"stat", "mkdir">>)
    ELSE IF ~e.durOk THEN SegErr(<<"stat", "mkdir", "ffprobe">>)
    ELSE IF GetVideoBitrate(e.rateCmdOk, e.rateOut).err
    THEN SegErr(<<"stat", "mkdir", "ffprobe", "ffprobe">>)
    ELSE LET probed == <<"stat", "mkdir", "ffprobe", "ffprobe">>
             t == SegmentTime(fileSize, maxSize, e.durSec,
                              GetVideoBitrate(e.rateCmdOk, e.rateOut).bitrate)
         IN  IF t.panic THEN SegPanic(probed)
             ELSE IF ~e.genOk THEN Timed(SegErr(Append(probed, "ffmpeg")), t)
             ELSE LET r == RemuxAll(e.tsCount, e.remuxFail)
                      eff == Append(probed, "ffmpeg") \o Repeat("ffmpeg", r.runs)
                  IN  IF r.err THEN Timed(SegErr(eff), t)
                      ELSE Timed(SegOk(r.plan, eff), t)

(***************************************************************************)
(* UploadOrchestrator: Client.SendMultiMedia (one goroutine per item) and  *)
(* MTProtoClient.SendMediaGroup (a sequential loop)                        *)
(***************************************************************************)
\* the zero value of tg.InputSingleMedia
ZeroMedia == [file |-> [kind |-> "none", n |-> 0], media |-> "none", message |-> <<>>]

\* what buildPhotoMedia / buildVideoMedia return for an uploaded item
SingleMedia(item) ==
    [file |-> item.FilePath,
     media |-> IF item.MediaType = "photo" THEN "photo" ELSE "document",
     message |-> item.Caption]

\* a store into the first free slot, i.e. in completion order
StoreNextFree(a, i, m) ==
    LET free == {k \in 1..Len(a) : a[k] = ZeroMedia}
        k == CHOOSE k \in free : \A l \in free : k <= l
    IN  [a EXCEPT ![k] = m]

\* album[i] = *media
StoreMedia(a, i, m) == [a EXCEPT ![i] = m]

Finished(t) == t \in {"done", "failed"}

\* an update of the response that carries no message (ids are positive)
OtherUpdate == 0

\* extractMessageID: the id of the first update of the response that carries a
\* message, 0 when none does
extractMessageID(updates) ==
    LET msgs == SelectSeq(updates, LAMBDA u : u # OtherUpdate)
    IN  IF Len(msgs) = 0 THEN 0 ELSE msgs[1]

\* the responses of the platform to an album-send call: the ids of the messages created
Responses ==
    {<<>>, <<OtherUpdate>>, <<BigId>>} \cup {<<a>> : a \in 1..MaxId}
    \cup {<<OtherUpdate, a, a + 1>> : a \in 1..MaxId}

\* the call's entry: the os.Stat loop over the items, InitUploader, make(album),
\* make(errs), and one "go func" per item
MultiSpawn ==
    /\ sendImpl = "multi" /\ sendPc = "called"
    /\ \E statOk \in BOOLEAN :
          IF Len(items) > 0 /\ ~statOk
          THEN /\ sendPc' = "returned"
               /\ sendResult' = [status |-> "err", id |-> 0]
               /\ UNCHANGED <<task, album>>
          ELSE /\ sendPc' = "spawned"
               /\ task' = [i \in 1..Len(items) |-> "start"]
               /\ album' = [i \in 1..Len(items) |-> ZeroMedia]
               /\ UNCHANGED sendResult
    /\ UNCHANGED <<sendImpl, items, errs, request, lateFirst, netCalls>>
    /\ UNCHANGED <<pureVars, splitVars, batchVars>>

\* a channel made without a buffer
Unbuffered(its) == 0

\* errs := make(chan error, len(items)): the capacity of the error channel
ErrsCapacity(its) == Len(its)

\* "errs <- err; return" of goroutine i: the send completes when the channel has
\* room, and otherwise blocks, for nothing receives from errs
ReportErr(i) ==
    IF errs < ErrsCapacity(items)
    THEN /\ task' = [task EXCEPT ![i] = "failed"]
         /\ errs' = errs + 1
         /\ lateFirst' = (lateFirst \/ \E j \in 1..(i - 1) : ~Finished(task[j]))
    ELSE /\ task' = [task EXCEPT ![i] = "blocked"]
         /\ UNCHANGED <<errs, lateFirst>>

\* goroutine i, first half of uploadMedia: c.uploader.FromPath; on error
\* "errs <- err; return"
TaskFromPath(i) ==
    /\ sendImpl = "multi" /\ sendPc = "spawned"
    /\ task[i] = "start"
    /\ netCalls' = netCalls + 1
    /\ \E ok \in BOOLEAN :
          IF ok
          THEN /\ task' = [task EXCEPT ![i] = "uploaded"]
               /\ UNCHANGED <<errs, lateFirst>>
          ELSE ReportErr(i)
    /\ UNCHANGED <<sendImpl, items, sendPc, album, request, sendResult>>
    /\ UNCHANGED <<pureVars, splitVars, batchVars>>

\* goroutine i, second half of uploadMedia: the switch on MediaType;
\* buildPhotoMedia/buildVideoMedia call MessagesUploadMedia and panic on its
\* error; then "album[i] = *media"
TaskBuild(i) ==
    /\ sendImpl = "multi" /\ sendPc = "spawned"
    /\ task[i] = "uploaded"
    /\ IF items[i].MediaType \in {"photo", "video"}
       THEN /\ netCalls' = netCalls + 1
            /\ \E ok \in BOOLEAN :
                  IF ok
                  THEN /\ task' = [task EXCEPT ![i] = "done"]
                       /\ album' = StoreMedia(album, i, SingleMedia(items[i]))
                       /\ lateFirst' = (lateFirst \/ \E j \in 1..(i - 1) : ~Finished(task[j]))
                       /\ UNCHANGED <<sendPc, sendResult>>
                  ELSE /\ task' = [task EXCEPT ![i] = "failed"]
                       /\ sendPc' = "panicked"
                       /\ sendResult' = [status |-> "panic", id |-> 0]
                       /\ UNCHANGED <<album, lateFirst>>
            /\ UNCHANGED errs
       ELSE /\ ReportErr(i)
            /\ UNCHANGED <<album, sendPc, sendResult, netCalls>>
    /\ UNCHANGED <<sendImpl, items, request>>
    /\ UNCHANGED <<pureVars, splitVars, batchVars>>

\* wg.Wait(), CloseUploader, close(errs), "if len(errs) > 0 { return error }"
MultiJoin ==
    /\ sendImpl = "multi" /\ sendPc = "spawned"
    /\ \A i \in 1..Len(items) : Finished(task[i])
    /\ IF errs > 0
       THEN sendPc' = "returned" /\ sendResult' = [status |-> "err", id |-> 0]
       ELSE sendPc' = "joined" /\ UNCHANGED sendResult
    /\ UNCHANGED <<sendImpl, items, task, album, errs, request, lateFirst, netCalls>>
    /\ UNCHANGED <<pureVars, splitVars, batchVars>>

\* MessagesSendMultiMedia with MultiMedia: album; the response is dropped
MultiSend ==
    /\ sendImpl = "multi" /\ sendPc = "joined"
    /\ netCalls' = netCalls + 1
    /\ \E ok \in BOOLEAN, updates \in Responses :
          /\ request' = [issued |-> TRUE, MultiMedia |-> album,
                         updates |-> IF ok THEN updates ELSE <<>>]
          /\ sendResult' = [status |-> IF ok THEN "ok" ELSE "err", id |-> 0]
    /\ sendPc' = "returned"
    /\ UNCHANGED <<sendImpl, items, task, album, errs, lateFirst>>
    /\ UNCHANGED <<pureVars, splitVars, batchVars>>

\* SendMediaGroup up to its loop: the two length checks and resolvePeer
GroupEnter ==
    /\ sendImpl = "group" /\ sendPc = "called"
    /\ IF Len(items) = 0 \/ Len(items) > AlbumLimit
       THEN /\ sendPc' = "returned"
            /\ sendResult' = [status |-> "err", id |-> 0]
            /\ UNCHANGED <<task, album, netCalls>>
       ELSE /\ netCalls' = netCalls + 1
            /\ \E peerOk \in BOOLEAN :
                  IF peerOk
                  THEN /\ sendPc' = "loop"
                       /\ task' = [i \in 1..Len(items) |-> "start"]
                       /\ album' = <<>>
                       /\ UNCHANGED sendResult
                  ELSE /\ sendPc' = "returned"
                       /\ sendResult' = [status |-> "err", id |-> 0]
                       /\ UNCHANGED <<task, album>>
    /\ UNCHANGED <<sendImpl, items, errs, request, lateFirst>>
    /\ UNCHANGED <<pureVars, splitVars, batchVars>>

\* one iteration of "for _, item := range items": FromPath, then the switch on
\* MediaType with buildPhotoMedia/buildVideoMedia (panic on a MessagesUploadMedia error)
GroupItem ==
    /\ sendImpl = "group" /\ sendPc = "loop"
    /\ Len(album) < Len(items)
    /\ LET i == Len(album) + 1
       IN  \E fromPathOk \in BOOLEAN, buildOk \in BOOLEAN :
             IF ~fromPathOk
             THEN /\ task' = [task EXCEPT ![i] = "failed"]
                  /\ sendPc' = "returned"
                  /\ sendResult' = [status |-> "err", id |-> 0]
                  /\ netCalls' = netCalls + 1
                  /\ UNCHANGED album
             ELSE IF items[i].MediaType \notin {"photo", "video"}
             THEN /\ task' = [task EXCEPT ![i] = "failed"]
                  /\ sendPc' = "returned"
                  /\ sendResult' = [status |-> "err", id |-> 0]
                  /\ netCalls' = netCalls + 1
                  /\ UNCHANGED album
             ELSE IF ~buildOk
             THEN /\ task' = [task EXCEPT ![i] = "failed"]
                  /\ sendPc' = "panicked"
                  /\ sendResult' = [status |-> "panic", id |-> 0]
                  /\ netCalls' = netCalls + 2
                  /\ UNCHANGED album
             ELSE /\ task' = [task EXCEPT ![i] = "done"]
                  /\ album' = Append(album, SingleMedia(items[i]))
                  /\ netCalls' = netCalls + 2
                  /\ UNCHANGED <<sendPc, sendResult>>
    /\ UNCHANGED <<sendImpl, items, errs, request, lateFirst>>
    /\ UNCHANGED <<pureVars, splitVars, batchVars>>

\* MessagesSendMultiMedia, extractMessageID, and the "msgID == 0" error
GroupSend ==
    /\ sendImpl = "group" /\ sendPc = "loop"
    /\ Len(album) = Len(items)
    /\ netCalls' = netCalls + 1
    /\ \E ok \in BOOLEAN, updates \in Responses :
          LET msgID == extractMessageID(updates)
          IN  /\ request' = [issued |-> TRUE, MultiMedia |-> album,
                             updates |-> IF ok THEN updates ELSE <<>>]
              /\ sendResult' = IF ok /\ msgID # 0 THEN [status |-> "ok", id |-> msgID]
                               ELSE [status |-> "err", id |-> 0]
    /\ sendPc' = "returned"
    /\ UNCHANGED <<sendImpl, items, task, album, errs, lateFirst>>
    /\ UNCHANGED <<pureVars, splitVars, batchVars>>

UploadStep ==
    \/ MultiSpawn
    \/ \E i \in 1..Len(items) : TaskFromPath(i)
    \/ \E i \in 1..Len(items) : TaskBuild(i)
    \/ MultiJoin
    \/ MultiSend
    \/ GroupEnter
    \/ GroupItem
    \/ GroupSend

(***************************************************************************)
(* Neutral values of the variable groups a specification does not use      *)
(***************************************************************************)
NoParse == [err |-> FALSE, tag |-> <<>>, description |-> <<>>, caption |-> <<>>]

ParseOff == filename = <<>> /\ parsePc = "off" /\ parseOut = NoParse

NoGridIn == [frames |-> 0, cols |-> 0, rows |-> 0]
NoGridOut == [err |-> FALSE, effects |-> <<>>]
GridOff == gridIn = NoGridIn /\ gridPc = "off" /\ gridOut = NoGridOut

NoMoveIn == [impl |-> "none", additional |-> 0]
NoMoveSt == [file |-> 0, src |-> <<>>, dst |-> <<>>, ops |-> <<>>, err |-> FALSE, log |-> <<>>]
MoveOff == moveIn = NoMoveIn /\ movePc = "off" /\ moveSt = NoMoveSt

NoFrameIn == [impl |-> "none", count |-> 0, duration |-> 0]
NoFrameSt == [i |-> 0, framePaths |-> <<>>, onDisk |-> {}, failedAt |-> -1,
              ret |-> <<>>, err |-> FALSE]
FramesOff == frameIn = NoFrameIn /\ framePc = "off" /\ frameSt = NoFrameSt

NoProgIn == [impl |-> "none", total |-> <<>>]
NoReg == [bars |-> <<>>, last |-> <<>>, added |-> <<>>, seen |-> <<>>, since |-> <<>>,
          high |-> <<>>, calls |-> 0]
ProgressOff == progIn = NoProgIn /\ mu = "free" /\ thr = <<>> /\ reg = NoReg

AuxOff == MoveOff /\ FramesOff /\ ProgressOff

NoSplitIn == [impl |-> "none", statOk |-> FALSE, fileSize |-> 0, maxSize |-> 0]
NoSplitOut == [status |-> "none", plan |-> <<>>, effects |-> <<>>, cur |-> 0, total |-> 0,
               segmentTime |-> 0, rate |-> 0, durSec |-> 0, bitrate |-> 0,
               rateCmdOk |-> FALSE, rateOut |-> <<>>,
               tsFiles |-> <<>>, produced |-> 0, stale |-> {}]

NoRequest == [issued |-> FALSE, MultiMedia |-> <<>>, updates |-> <<>>]
NoResult == [status |-> "none", id |-> 0]

SendOff ==
    /\ sendImpl = "none" /\ items = <<>> /\ sendPc = "idle" /\ task = <<>> /\ album = <<>>
    /\ errs = 0 /\ request = NoRequest /\ sendResult = NoResult /\ lateFirst = FALSE
    /\ netCalls = 0

NoStats == [Processed |-> 0, Succeeded |-> 0, Failed |-> 0]
NoCur == [name |-> <<>>, tag |-> <<>>, description |-> <<>>, size |-> 0,
          media |-> "none", caption |-> <<>>,
          planned |-> FALSE, plan |-> <<>>, why |-> "none"]
NoCfg == [main |-> "none", MaxSize |-> 0, CleanupTempDir |-> FALSE]

BatchOff ==
    /\ cfg = NoCfg /\ files = <<>> /\ idx = 0 /\ pc = "off" /\ stats = NoStats
    /\ srcDir = {} /\ doneDir = {} /\ cur = NoCur /\ tempDir = FALSE /\ failed = {}

SplitOff == splitIn = NoSplitIn /\ splitPc = "off" /\ splitOut = NoSplitOut

(***************************************************************************)
(* Batch loops: main of cmd/uploader (fileprocessor.ProcessVideo,          *)
(* SendMediaGroup, SendMedia) and main of cmd/server (video.ProcessVideo,  *)
(* SendMultiMedia)                                                         *)
(***************************************************************************)
\* the "-max-size" of 2 GB, in units of half a gigabyte
TwoGigabytes == 4

\* the number of parts the sizes call for
NominalParts == CeilDiv(LargeSize, TwoGigabytes)

PartCounts == (0..MaxParts) \cup {NominalParts, AlbumLimit, AlbumLimit + 3}
FileSizes == {1, LargeSize}

BatchSplitVideoEnvs ==
    [lookOk : BOOLEAN, mkdirOk : BOOLEAN, cmdOk : BOOLEAN,
     produced : {0..(k - 1) : k \in PartCounts}]

BatchV2Envs ==
    [mkdirOk : BOOLEAN, durOk : BOOLEAN, durSec : 0..1, rateCmdOk : BOOLEAN,
     rateOut : {ProbeLine(<<>>), ProbeLine(Itoa(0)), ProbeLine(Itoa(1))},
     genOk : BOOLEAN, tsCount : PartCounts, remuxFail : 0..1]

\* video.ProcessVideo of internal/video/uploader.go returns 0 as the message id
\* and video.ProcessVideo of cmd/server returns no id at all
NoDeliveryId == 0

\* "stats.Failed++; continue"
IterFail(why, st, c) ==
    /\ stats' = [st EXCEPT !.Failed = @ + 1]
    /\ failed' = failed \cup {[name |-> c.name, why |-> why]}
    /\ cur' = [c EXCEPT !.why = why]
    /\ idx' = idx + 1
    /\ pc' = "head"

\* the iteration goes on at position next
IterGoOn(next, st, c) ==
    /\ stats' = st
    /\ failed' = failed
    /\ cur' = c
    /\ idx' = idx
    /\ pc' = next

\* the iteration ends without failure and the loop goes on to the next file
IterDone(st, c) ==
    /\ stats' = st
    /\ failed' = failed
    /\ cur' = c
    /\ idx' = idx + 1
    /\ pc' = "head"

\* the deferred "if cleanupTempDir { os.RemoveAll(tempDir) }" of video.ProcessVideo
ServerReturn(exists) == IF cfg.CleanupTempDir THEN FALSE ELSE exists

\* MoveFile and Processor.MoveVideoFiles:
\* fmt.Sprintf("%s_msgid_%d%s", nameWithoutExt, messageID, ext)
MsgidName(fname, messageID) ==
    LET ext == Ext(fname)
        nameWithoutExt == TrimSuffix(fname, ext)
    IN  nameWithoutExt \o <<"_", "m", "s", "g", "i", "d", "_">> \o Itoa(messageID) \o ext

\* video.MoveVideoFiles of cmd/server: fmt.Sprintf("%s%s", nameWithoutExt, ext)
PlainName(originalFilename) ==
    LET ext == Ext(originalFilename)
        nameWithoutExt == TrimSuffix(originalFilename, ext)
    IN  nameWithoutExt \o ext

\* moveOrCopy / MoveFile: rename, else copy and remove the source
MoveOutcome(renameOk, copyOk, removeOk) ==
    IF renameOk THEN "moved"
    ELSE IF ~copyOk THEN "failed"
    ELSE IF ~removeOk THEN "copied"
    ELSE "moved"

\* the extensions SendMedia sends as InputMediaUploadedPhoto
PhotoExts == {<<".", "j", "p", "g">>, <<".", "j", "p", "e", "g">>, <<".", "p", "n", "g">>,
              <<".", "g", "i", "f">>, <<".", "w", "e", "b", "p">>, <<".", "b", "m", "p">>}

\* SendMedia, "Determine media type": photo by extension, else document
MediaKind(filePath) ==
    IF ToLower(Ext(filePath)) \in PhotoExts THEN "photo" ELSE "document"

\* MTProtoClient.SendMedia: os.Open, FromPath, resolvePeer, MessagesSendMedia with
\* Media and Message, extractMessageID; media is "none" when the send call was not made
SendMedia(filePath, caption, openOk, uploadOk, peerOk, sendOk, updates) ==
    LET none == [status |-> "err", id |-> 0, calls |-> 0, media |-> "none", message |-> <<>>]
        sent == [none EXCEPT !.calls = 3, !.media = MediaKind(filePath), !.message = caption]
    IN  IF ~openOk THEN none
        ELSE IF ~uploadOk THEN [none EXCEPT !.calls = 1]
        ELSE IF ~peerOk THEN [none EXCEPT !.calls = 2]
        ELSE IF ~sendOk \/ extractMessageID(updates) = 0 THEN sent
        ELSE [sent EXCEPT !.status = "ok", !.id = extractMessageID(updates)]

\* processor.ScanFiles and the "len(files) == 0" return; cmd/server then
\* resolves the peer; a failure of either is fatal to the run
Scan ==
    /\ pc = "scan"
    /\ \E ok \in BOOLEAN, peerOk \in BOOLEAN :
          IF ~ok
          THEN /\ files' = <<>>
               /\ pc' = "fatal"
          ELSE /\ files' = ScanFiles(srcDir)
               /\ pc' = IF Len(ScanFiles(srcDir)) = 0 THEN "done"
                        ELSE IF cfg.main = "server" /\ ~peerOk THEN "fatal"
                        ELSE "head"
    /\ idx' = 1
    /\ UNCHANGED <<cfg, stats, srcDir, doneDir, cur, tempDir, failed>>
    /\ UNCHANGED <<pureVars, splitVars, sendVars>>

\* the head of an iteration: stats.Processed++, ParseFilename, os.Stat and the
\* choice of the workflow by IsVideoFile
IterHead ==
    /\ pc = "head" /\ idx <= Len(files)
    /\ LET name == files[idx]
           r == ParseFilename(name)
           st == [stats EXCEPT !.Processed = @ + 1]
           c0 == [NoCur EXCEPT !.name = name]
       IN  \E statOk \in BOOLEAN, size \in FileSizes :
             IF r.err THEN IterFail("parse", st, c0)
             ELSE LET c == [c0 EXCEPT !.tag = r.tag, !.description = r.description]
                  IN  IF ~statOk THEN IterFail("stat", st, c)
                      ELSE IF IsVideoFile(name)
                      THEN IterGoOn("video", st, [c EXCEPT !.size = size])
                      ELSE IF cfg.main = "uploader"
                      THEN IterGoOn("single", st, [c EXCEPT !.size = size])
                      ELSE IterFail("not_video", st, [c EXCEPT !.size = size])
    /\ sendImpl' = "none" /\ items' = <<>> /\ sendPc' = "idle" /\ task' = <<>>
    /\ album' = <<>> /\ errs' = 0 /\ request' = NoRequest /\ sendResult' = NoResult
    /\ lateFirst' = FALSE /\ netCalls' = 0
    /\ UNCHANGED <<cfg, files, srcDir, doneDir, tempDir>>
    /\ UNCHANGED <<pureVars, splitVars>>

\* ProcessVideo up to the preview: the temp directory (cmd/uploader) or the
\* stat and duration probe (cmd/server), then ExtractFrames and ComposeGrid
Thumbnail ==
    /\ pc = "video"
    /\ \E mkdirOk \in BOOLEAN, statOk \in BOOLEAN, probeOk \in BOOLEAN,
          framesOk \in BOOLEAN, gridOk \in BOOLEAN :
          IF cfg.main = "uploader"
          THEN IF ~mkdirOk
               THEN IterFail("tempdir", stats, cur) /\ UNCHANGED tempDir
               ELSE IF ~framesOk \/ ~gridOk
               THEN IterFail("thumbnail", stats, cur) /\ tempDir' = FALSE
               ELSE IterGoOn("split", stats, cur) /\ tempDir' = TRUE
          ELSE IF ~statOk
               THEN IterFail("stat", stats, cur) /\ tempDir' = ServerReturn(tempDir)
               ELSE IF ~probeOk
               THEN IterFail("probe", stats, cur) /\ tempDir' = ServerReturn(tempDir)
               ELSE IF ~(framesOk /\ tempDir) \/ ~gridOk
               THEN IterFail("thumbnail", stats, cur) /\ tempDir' = ServerReturn(tempDir)
               ELSE IterGoOn("split", stats, cur) /\ UNCHANGED tempDir
    /\ UNCHANGED <<cfg, files, srcDir, doneDir>>
    /\ UNCHANGED <<pureVars, splitVars, sendVars>>

\* ProcessVideo from the split to the built media group: SplitVideo and
\* ValidateChunkCount (cmd/uploader) or splitVideoV2, the "1+len(videoParts) > 10"
\* check and GetVideoResolution per part (cmd/server); then the upload call is entered
SplitAndBuild ==
    /\ pc = "split"
    /\ \E statOk \in BOOLEAN, resOk \in BOOLEAN :
          IF cfg.main = "uploader"
          THEN \E e \in BatchSplitVideoEnvs :
                 LET seg == SplitVideo(statOk, cur.size, cfg.MaxSize, e)
                     c == [cur EXCEPT !.planned = TRUE, !.plan = seg.plan]
                 IN  IF seg.status = "err"
                     THEN /\ IterFail("split", stats, cur)
                          /\ tempDir' = FALSE
                          /\ UNCHANGED <<sendImpl, items, sendPc>>
                     ELSE IF ValidateChunkCount(Len(seg.plan))
                     THEN /\ IterFail("too_large", stats, c)
                          /\ tempDir' = FALSE
                          /\ UNCHANGED <<sendImpl, items, sendPc>>
                     ELSE /\ IterGoOn("upload", stats, c)
                          /\ UNCHANGED tempDir
                          /\ sendImpl' = "group"
                          /\ items' = BuildAlbum(cur.tag, cur.description, seg.plan)
                          /\ sendPc' = "called"
          ELSE \E e \in BatchV2Envs :
                 LET seg == splitVideoV2(statOk, cur.size, cfg.MaxSize, e)
                     c == [cur EXCEPT !.planned = TRUE, !.plan = seg.plan]
                     made == \E k \in 1..Len(seg.effects) : seg.effects[k] = "mkdir"
                 IN  IF seg.status = "panic"
                     THEN /\ pc' = "crashed"
                          /\ cur' = [cur EXCEPT !.why = "panic"]
                          /\ tempDir' = ServerReturn(tempDir \/ made)
                          /\ UNCHANGED <<stats, failed, idx, sendImpl, items, sendPc>>
                     ELSE IF seg.status = "err"
                     THEN /\ IterFail("split", stats, cur)
                          /\ tempDir' = ServerReturn(tempDir \/ (made /\ e.mkdirOk))
                          /\ UNCHANGED <<sendImpl, items, sendPc>>
                     ELSE IF TooManyItems(Len(seg.plan))
                     THEN /\ IterFail("too_large", stats, c)
                          /\ tempDir' = ServerReturn(tempDir \/ made)
                          /\ UNCHANGED <<sendImpl, items, sendPc>>
                     ELSE IF Len(seg.plan) > 0 /\ ~resOk
                     THEN /\ IterFail("resolution", stats, c)
                          /\ tempDir' = ServerReturn(tempDir \/ made)
                          /\ UNCHANGED <<sendImpl, items, sendPc>>
                     ELSE /\ IterGoOn("upload", stats, c)
                          /\ tempDir' = (tempDir \/ made)
                          /\ sendImpl' = "multi"
                          /\ items' = BuildAlbum(cur.tag, cur.description, seg.plan)
                          /\ sendPc' = "called"
    /\ UNCHANGED <<task, album, errs, request, sendResult, lateFirst, netCalls>>
    /\ UNCHANGED <<cfg, files, srcDir, doneDir>>
    /\ UNCHANGED <<pureVars, splitVars>>

\* the frames ExtractFrames(filePath, 30, tempDir) returns to ProcessVideo
PreviewFrames == 30
Frame(i) == [kind |-> "frame", n |-> i]

\* every part taken for a derived file
AllParts(videoParts) == videoParts
\* "for _, part := range videoParts { if part != filePath { append } }"
DerivedParts(videoParts) == SelectSeq(videoParts, LAMBDA part : part # Orig)

\* tempFiles of fileprocessor.ProcessVideo once the parts are known: the
\* frames, the preview and the parts other than the original
TempFiles(videoParts) ==
    [i \in 1..PreviewFrames |-> Frame(i - 1)] \o <<Preview>> \o DerivedParts(videoParts)

\* filesToSave of fileprocessor.ProcessVideo: the preview and the parts other
\* than the original
FilesToSave(videoParts) == <<Preview>> \o DerivedParts(videoParts)

\* cleanup() of fileprocessor.ProcessVideo seen from the source directory:
\* os.Remove of every temp file, then os.RemoveAll(tempDir)
cleanup(dir, name, tempFiles) ==
    IF Orig \in Range(tempFiles) THEN dir \ {name} ELSE dir

\* the original leaves the source directory and arrives in the done directory
\* under the delivery id; a copy whose source could not be removed leaves it in both
Relocate(name, id, dest, outcome) ==
    /\ srcDir' = IF outcome = "moved" THEN srcDir \ {name} ELSE srcDir
    /\ doneDir' = IF outcome \in {"moved", "copied"}
                  THEN doneDir \cup {[name |-> name, id |-> id, dest |-> dest]}
                  ELSE doneDir

\* the upload call has returned: an error fails the file; otherwise
\* MoveVideoFiles, and in cmd/uploader stats.Succeeded++
AfterUpload ==
    /\ pc = "upload" /\ sendPc = "returned"
    /\ IF sendResult.status = "err"
       THEN /\ IterFail("upload", stats, cur)
            /\ tempDir' = IF cfg.main = "uploader" THEN FALSE ELSE ServerReturn(tempDir)
            /\ srcDir' = IF cfg.main = "uploader"
                         THEN cleanup(srcDir, cur.name, TempFiles(cur.plan))
                         ELSE srcDir
            /\ UNCHANGED doneDir
       ELSE \E renameOk \in BOOLEAN, copyOk \in BOOLEAN, removeOk \in BOOLEAN :
              IF cfg.main = "uploader"
              THEN LET outcome == MoveOutcome(renameOk, copyOk, removeOk)
                   IN  /\ Relocate(cur.name, sendResult.id,
                                   MsgidName(cur.name, sendResult.id), outcome)
                       /\ UNCHANGED tempDir
                       /\ IF outcome = "moved"
                          THEN IterDone([stats EXCEPT !.Succeeded = @ + 1], cur)
                          ELSE IterFail("move", stats, cur)
              ELSE LET outcome == IF renameOk THEN "moved" ELSE "failed"
                   IN  /\ Relocate(cur.name, NoDeliveryId, PlainName(cur.name), outcome)
                       /\ tempDir' = ServerReturn(tempDir)
                       /\ IF outcome = "moved"
                          THEN IterDone(stats, cur)
                          ELSE IterFail("move", stats, cur)
    /\ UNCHANGED <<cfg, files>>
    /\ UNCHANGED <<pureVars, splitVars, sendVars>>

\* the non-video branch of cmd/uploader: BuildCaption, SendMedia, MoveFile
SingleFile ==
    /\ pc = "single"
    /\ \E openOk \in BOOLEAN, uploadOk \in BOOLEAN, peerOk \in BOOLEAN, sendOk \in BOOLEAN,
          updates \in Responses, renameOk \in BOOLEAN, copyOk \in BOOLEAN, removeOk \in BOOLEAN :
          LET caption == BuildCaption(cur.tag, cur.description)
              r == SendMedia(cur.name, caption, openOk, uploadOk, peerOk, sendOk, updates)
              outcome == MoveOutcome(renameOk, copyOk, removeOk)
              c == [cur EXCEPT !.media = r.media, !.caption = r.message]
          IN  /\ netCalls' = r.calls
              /\ sendResult' = [status |-> r.status, id |-> r.id]
              /\ IF r.status = "err"
                 THEN IterFail("upload", stats, c) /\ UNCHANGED <<srcDir, doneDir>>
                 ELSE /\ Relocate(cur.name, r.id, MsgidName(cur.name, r.id), outcome)
                      /\ IF outcome = "moved"
                         THEN IterDone([stats EXCEPT !.Succeeded = @ + 1], c)
                         ELSE IterFail("move", stats, c)
    /\ UNCHANGED <<sendImpl, items, sendPc, task, album, errs, request, lateFirst>>
    /\ UNCHANGED <<cfg, files, tempDir>>
    /\ UNCHANGED <<pureVars, splitVars>>

\* the loop has run over every scanned file: the statistics are printed
Summary ==
    /\ pc = "head" /\ idx > Len(files)
    /\ pc' = "done"
    /\ UNCHANGED <<cfg, files, idx, stats, srcDir, doneDir, cur, tempDir, failed>>
    /\ UNCHANGED <<pureVars, splitVars, sendVars>>

\* the upload call made by ProcessVideo
Upload == pc = "upload" /\ UploadStep

\* the files of the catalogue that take the non-video branch
PlainFiles == {n \in Catalogue : ~IsVideoFile(n)}

\* the files of the catalogue that take the video branch with a valid name
ValidVideos == {n \in Catalogue : IsVideoFile(n) /\ ~ParseFilename(n).err}

\* the files of the catalogue whose name ParseFilename refuses
RefusedNames == {n \in Catalogue : ParseFilename(n).err}

\* the source directories of the batches: up to MaxFiles files, the valid
\* videos together, a refused name next to a valid video, or the
\* subdirectory next to non-video files
Batches ==
    {d \in SUBSET Catalogue : Cardinality(d) <= MaxFiles}
    \cup {ValidVideos}
    \cup {{n, v} : n \in RefusedNames, v \in ValidVideos}
    \cup {d \cup SubDirs : d \in SUBSET PlainFiles}

Configs ==
    {[main |-> "uploader", MaxSize |-> m, CleanupTempDir |-> TRUE] : m \in {1, TwoGigabytes}}
    \cup {[main |-> "server", MaxSize |-> m, CleanupTempDir |-> b] :
              m \in {1, TwoGigabytes}, b \in BOOLEAN}

Init ==
    /\ cfg \in Configs
    /\ srcDir \in Batches
    /\ files = <<>> /\ idx = 0 /\ pc = "scan" /\ stats = NoStats
    /\ doneDir = {} /\ cur = NoCur /\ failed = {}
    /\ tempDir = (cfg.main = "server")
    /\ ParseOff /\ GridOff /\ AuxOff /\ SplitOff /\ SendOff

Next ==
    \/ Scan
    \/ IterHead
    \/ Thumbnail
    \/ SplitAndBuild
    \/ Upload
    \/ AfterUpload
    \/ SingleFile
    \/ Summary

Spec == Init /\ [][Next]_vars

\* the names of the files the loop recorded as failed, and of those it delivered
FailedNames == {f.name : f \in failed}
DoneNames == {d.name : d \in doneDir}

\* the caption "#<tag> <description>" with every underscore of the description
\* replaced by a space, character by character
CaptionOf(tag, description) ==
    [k \in 1..(Len(tag) + Len(description) + 2) |->
        IF k = 1 THEN "#"
        ELSE IF k <= Len(tag) + 1 THEN tag[k - 1]
        ELSE IF k = Len(tag) + 2 THEN " "
        ELSE IF description[k - Len(tag) - 2] = "_" THEN " "
        ELSE description[k - Len(tag) - 2]]

\* C1: a file is in the done directory only under a delivery identifier
\* different from 0, and a file that failed in parsing, stat, thumbnailing,
\* splitting, item-count validation or upload is still in the source directory.
C1_MovedOnlyWithDeliveryId ==
    /\ \A d \in doneDir : d.id # 0
    /\ \A f \in failed :
          f.why \in {"parse", "stat", "thumbnail", "split", "too_large", "upload"}
              => f.name \in srcDir /\ f.name \notin DoneNames

\* C4: in every media group ProcessVideo builds, and in the album request made
\* from it, the first item carries "#<tag> <description with spaces>" and every
\* later item carries the empty caption.
C4_CaptionOnFirstItemOnly ==
    /\ pc = "upload" =>
          /\ Len(items) >= 1
          /\ items[1].Caption = CaptionOf(cur.tag, cur.description)
          /\ \A k \in 2..Len(items) : items[k].Caption = <<>>
    /\ pc = "upload" /\ request.issued =>
          /\ Len(request.MultiMedia) = Len(items)
          /\ request.MultiMedia[1].message = CaptionOf(cur.tag, cur.description)
          /\ \A k \in 2..Len(request.MultiMedia) : request.MultiMedia[k].message = <<>>

\* an album request of three items or more was issued for a description that
\* holds an underscore
C4_Witness ==
    /\ pc = "upload" /\ request.issued
    /\ Len(request.MultiMedia) >= 3
    /\ \E k \in 1..Len(cur.description) : cur.description[k] = "_"

\* C5: for a plan of n segment paths the media group has n+1 items, item 0 the
\* preview as photo and item k the segment k-1 as video; a video that needs no
\* split is sent as the 2-item album [preview, original].
C5_PreviewThenSegments ==
    pc = "upload" =>
        /\ Len(items) = Len(cur.plan) + 1
        /\ items[1].FilePath = Preview /\ items[1].MediaType = "photo"
        /\ \A k \in 1..Len(cur.plan) :
              items[k + 1].FilePath = cur.plan[k] /\ items[k + 1].MediaType = "video"
        /\ (cfg.MaxSize <= 0 \/ cur.size <= cfg.MaxSize) =>
              /\ Len(items) = 2
              /\ items[1].FilePath = Preview
              /\ items[2].FilePath = Orig

\* the album of a video that needed no split was sent
C5_Witness ==
    /\ pc = "upload" /\ request.issued
    /\ cur.size <= cfg.MaxSize
    /\ Len(request.MultiMedia) = 2
    /\ request.MultiMedia[2].file = Orig

\* C6: when 1 + the number of segments exceeds 10, the file fails with the
\* album-too-large error, no item upload and no album-send call was made for
\* it, and the original is still in the source directory.
C6_TooLargeBeforeAnyCall ==
    cur.planned /\ 1 + Len(cur.plan) > 10 =>
        /\ cur.why = "too_large"
        /\ [name |-> cur.name, why |-> "too_large"] \in failed
        /\ sendPc = "idle" /\ netCalls = 0 /\ ~request.issued
        /\ cur.name \in srcDir /\ cur.name \notin DoneNames

\* a video of 13 segments was rejected
C6_Witness ==
    /\ cur.planned /\ Len(cur.plan) = 13
    /\ cur.why = "too_large"
    /\ pc = "head"

ProcessVideoReturned ==
    /\ pc \in {"head", "done"}
    /\ cur.size > 0 /\ IsVideoFile(cur.name)

\* the caller asked to retain the temporary directory
RetainTempDir == cfg.main = "server" /\ ~cfg.CleanupTempDir

\* C17: when ProcessVideo has returned for a file, with success or with any
\* error, the temporary working directory is gone, unless the caller passed
\* cleanupTempDir = false, in which case the directory is still in place.
C17_TempDirRemovedOnReturn ==
    ProcessVideoReturned =>
        IF RetainTempDir THEN tempDir ELSE ~tempDir

\* C17 for video.ProcessVideo of cmd/server alone
C17_ServerTempDir ==
    (ProcessVideoReturned /\ cfg.main = "server") =>
        IF RetainTempDir THEN tempDir ELSE ~tempDir

\* C17 for the failure returns of fileprocessor.ProcessVideo of cmd/uploader
\* that come after the directory was created
C17_UploaderFailureCleansUp ==
    (/\ ProcessVideoReturned /\ cfg.main = "uploader"
     /\ cur.why \in {"thumbnail", "split", "too_large", "upload"}) => ~tempDir

\* fileprocessor.ProcessVideo returned a message id and the directory is still there
C17_UploaderSuccessKeepsDir ==
    /\ ProcessVideoReturned /\ cfg.main = "uploader"
    /\ cur.name \in DoneNames /\ tempDir

\* C20: in a cmd/server batch the temporary directory is created and destroyed
\* per file: for every file, the second and later ones included, it exists when
\* the file's frame extraction starts, and it is gone when the file's
\* processing has ended.
C20_TempDirPerFile ==
    cfg.main = "server" =>
        /\ pc = "video" => tempDir
        /\ (ProcessVideoReturned /\ cfg.CleanupTempDir) => ~tempDir

\* C20 holds as long as no video of the batch was processed before
C20_FirstVideoHasTempDir ==
    (/\ cfg.main = "server" /\ pc = "video"
     /\ \A i \in 1..(idx - 1) : ~IsVideoFile(files[i]) \/ ParseFilename(files[i]).err)
        => tempDir

\* C20 holds when the directory is retained
C20_RetainedDirStays ==
    (cfg.main = "server" /\ ~cfg.CleanupTempDir) => tempDir

\* the second video of a cmd/server batch is about to have its frames extracted
\* and the directory is gone
C20_SecondVideoWithoutDir ==
    /\ cfg.main = "server" /\ pc = "video" /\ idx = 2 /\ ~tempDir

FinishedNames == FailedNames \cup DoneNames

\* C24: ScanFiles returns exactly the entries of the source directory that are
\* not directories, in lexicographic order, and the loop processes them one at
\* a time in that order: every file before the current one is finished (failed
\* or relocated) and no file from the current one on has been finished.
C24_SortedScanInOrder ==
    pc \in {"head", "video", "split", "upload", "single", "done"} =>
        /\ {files[i] : i \in 1..Len(files)} = {n \in srcDir \cup DoneNames : ~IsDir(n)}
        /\ \A i, j \in 1..Len(files) : i < j => Less(files[i], files[j])
        /\ idx \in 1..(Len(files) + 1)
        /\ \A i \in 1..Len(files) : i < idx <=> files[i] \in FinishedNames

\* the scan of a directory holding a subdirectory and two files returned the
\* two files, and the loop has finished the first and is in the second
C24_SecondOfTwoBesideSubDir ==
    /\ pc = "single" /\ idx = 2 /\ Len(files) = 2
    /\ \E d \in SubDirs : d \in srcDir
    /\ files[1] \in FinishedNames /\ cur.name = files[2]

\* C27: after every iteration of the batch loop and in the final summary,
\* Processed = Succeeded + Failed.
C27_ProcessedIsSucceededPlusFailed ==
    pc \in {"head", "done"} => stats.Processed = stats.Succeeded + stats.Failed

\* C27 for cmd/uploader alone
C27_UploaderCounts ==
    (cfg.main = "uploader" /\ pc \in {"head", "done"}) =>
        stats.Processed = stats.Succeeded + stats.Failed

\* cmd/uploader has printed the summary of a batch with a delivered and a
\* failed file
C27_UploaderSummary ==
    /\ cfg.main = "uploader" /\ pc = "done"
    /\ stats = [Processed |-> 2, Succeeded |-> 1, Failed |-> 1]

\* C28: the original source path is never put into the list of temporary files
\* nor into the list of retained derived files; when the plan is the single
\* original path, cleanup does not delete the original and the original arrives
\* in the done directory under its own name only.
C28_OriginalNeverDerived ==
    (cfg.main = "uploader" /\ cur.planned) =>
        /\ Orig \notin Range(TempFiles(cur.plan))
        /\ Orig \notin Range(FilesToSave(cur.plan))
        /\ (cur.plan = <<Orig>> /\ cur.why = "upload") => cur.name \in srcDir
        /\ cur.plan = <<Orig>> =>
              \A d \in doneDir : d.name = cur.name => d.dest = MsgidName(cur.name, d.id)

\* the upload of an unsplit video failed and cleanup() has run
C28_CleanupAfterUnsplitUpload ==
    /\ cfg.main = "uploader" /\ cur.planned /\ cur.plan = <<Orig>>
    /\ pc = "head" /\ cur.why = "upload" /\ cur.name \in srcDir /\ ~tempDir

\* C9: when the run has ended, every scanned file was either recorded as
\* failed or delivered: no file's failure kept the loop from the files after it.
C9_FailureContained ==
    (pc \in {"done", "crashed"} \/ sendPc = "panicked") =>
        /\ stats.Processed = Len(files)
        /\ \A i \in 1..Len(files) : files[i] \in FailedNames \cup DoneNames


\* the name without its extension (the part before the last dot), and whether
\* it lacks an underscore or has nothing before or after its first underscore
StemOf(name) ==
    IF \E k \in 1..Len(name) : name[k] = "."
    THEN LET dot == CHOOSE k \in 1..Len(name) :
                        name[k] = "." /\ \A l \in (k + 1)..Len(name) : name[l] # "."
         IN  SubSeq(name, 1, dot - 1)
    ELSE name

InvalidName(name) ==
    LET stem == StemOf(name)
        us == {k \in 1..Len(stem) : stem[k] = "_"}
    IN  \/ us = {}
        \/ 1 \in us
        \/ (Len(stem) \in us /\ \A k \in us : k = Len(stem))

\* C11: a file whose name without extension has no underscore, or an empty tag
\* or description, is counted as failed by the batch loop, is neither uploaded
\* nor moved, and the loop goes on to the next file.
C11_InvalidNameSkipped ==
    /\ \A i \in 1..Len(files) :
          (i < idx /\ InvalidName(files[i])) =>
              /\ [name |-> files[i], why |-> "parse"] \in failed
              /\ files[i] \in srcDir
              /\ files[i] \notin DoneNames
    /\ (pc \notin {"scan", "fatal"} /\ cur.name # <<>> /\ InvalidName(cur.name)) =>
          /\ pc \in {"head", "done"}
          /\ files[idx - 1] = cur.name
          /\ cur.why = "parse"
          /\ sendPc = "idle" /\ netCalls = 0 /\ ~request.issued
          /\ stats.Failed >= 1

\* a name with an empty description was skipped and the loop went on to a later file
C11_Witness ==
    /\ \E i \in 1..Len(files) :
          /\ i < idx - 1
          /\ files[i] = <<"t", "_", ".", "m", "p", "4">>
          /\ [name |-> files[i], why |-> "parse"] \in failed
    /\ stats.Processed = 2


\* the decimal numeral of n: the digit string without leading zero whose value is n
DecimalOf(n) ==
    IF n < 10 THEN <<Digits[n + 1]>>
    ELSE <<Digits[(n \div 10) + 1], Digits[(n % 10) + 1]>>

\* <stem>_msgid_<id><ext> for a name split at its last dot
ExpectedDest(name, id) ==
    StemOf(name) \o <<"_", "m", "s", "g", "i", "d", "_">> \o DecimalOf(id)
        \o SubSeq(name, Len(StemOf(name)) + 1, Len(name))

\* C12: every original in the done directory, relocated after a delivery with
\* identifier id, has the destination name <stem>_msgid_<id><ext>.
C12_DestNameHasMsgid ==
    \A d \in doneDir : d.dest = ExpectedDest(d.name, d.id)

\* C12 for cmd/uploader alone: MoveFile and Processor.MoveVideoFiles name the
\* destination <stem>_msgid_<id><ext>.
C12_UploaderDestName ==
    cfg.main = "uploader" => \A d \in doneDir : d.dest = ExpectedDest(d.name, d.id)


\* a file with a valid name that IsVideoFile does not take for a video, and the
\* media kind its extension asks for
NonVideoValid(name) == ~InvalidName(name) /\ ~IsVideoFile(name)

ExpectedKind(name) ==
    IF SubSeq(name, Len(StemOf(name)) + 1, Len(name)) \in PhotoExts THEN "photo" ELSE "document"

\* what C13 asks of the file name once the loop has dealt with it: it was
\* delivered and relocated under its identifier, or its upload or relocation failed
SingleUploaded(name) ==
    \/ \E f \in failed : f.name = name /\ f.why \in {"stat", "upload", "move"}
    \/ \E d \in doneDir : d.name = name /\ d.id # 0 /\ d.dest = ExpectedDest(name, d.id)

SingleRequestRight ==
    (NonVideoValid(cur.name) /\ cur.media # "none") =>
        /\ cur.media = ExpectedKind(cur.name)
        /\ cur.caption = CaptionOf(cur.tag, cur.description)

\* C13: a non-video file with a valid name is uploaded through SendMedia with
\* the media kind of its extension and the caption of its name, and on success
\* is relocated as <stem>_msgid_<id><ext> under the returned identifier.
C13_NonVideoSingleUpload ==
    /\ \A i \in 1..Len(files) : (i < idx /\ NonVideoValid(files[i])) => SingleUploaded(files[i])
    /\ SingleRequestRight

\* C13 for cmd/uploader alone.
C13_UploaderSingleUpload ==
    cfg.main = "uploader" =>
        /\ \A i \in 1..Len(files) :
              (i < idx /\ NonVideoValid(files[i])) => SingleUploaded(files[i])
        /\ SingleRequestRight

\* scenario A in cmd/uploader: the photo was sent with its caption and relocated
\* under a delivery id of two digits
C13_ScenarioA ==
    /\ cfg.main = "uploader"
    /\ cur.name = <<"p", "_", "a", "_", "b", ".", "j", "p", "g">>
    /\ cur.media = "photo"
    /\ cur.caption = <<"#", "p", " ", "a", " ", "b">>
    /\ [name |-> cur.name, id |-> BigId,
        dest |-> <<"p", "_", "a", "_", "b", "_", "m", "s", "g", "i", "d", "_", "1", "2",
                   ".", "j", "p", "g">>] \in doneDir
    /\ cur.name \notin srcDir

(***************************************************************************)
(* SpecParse: ParseFilename and BuildCaption applied to every name of at   *)
(* most MaxNameLen characters                                              *)
(***************************************************************************)
DoParse ==
    /\ parsePc = "input"
    /\ LET r == ParseFilename(filename)
       IN  parseOut' = [err |-> r.err, tag |-> r.tag, description |-> r.description,
                        caption |-> IF r.err THEN <<>>
                                    ELSE BuildCaption(r.tag, r.description)]
    /\ parsePc' = "parsed"
    /\ UNCHANGED <<filename, gridVars, auxVars, splitVars, sendVars, batchVars>>

InitParse ==
    /\ filename \in StringsUpTo(MaxNameLen)
    /\ parsePc = "input"
    /\ parseOut = NoParse
    /\ GridOff /\ AuxOff /\ SplitOff /\ SendOff /\ BatchOff

NextParse == DoParse

SpecParse == InitParse /\ [][NextParse]_vars

\* the decompositions TAG_DESCRIPTION.ext of a name: i is the position of the
\* separating underscore, j the position of the dot that starts the extension
ValidForms(name) ==
    {ij \in (1..Len(name)) \X (1..Len(name)) :
        /\ ij[1] > 1 /\ ij[1] + 1 < ij[2]
        /\ name[ij[1]] = "_" /\ name[ij[2]] = "."
        /\ \A k \in 1..(ij[1] - 1) : name[k] # "_"
        /\ \A k \in (ij[2] + 1)..Len(name) : name[k] # "."}

\* C10: for every name TAG_DESCRIPTION.ext (TAG non-empty without underscore,
\* DESCRIPTION non-empty, ext an extension, i.e. without a dot) ParseFilename
\* returns (TAG, DESCRIPTION), split at the first underscore of the name without
\* its extension, and the caption is "#TAG " followed by DESCRIPTION with every
\* underscore replaced by a space.
C10_ParseAndCaption ==
    parsePc = "parsed" =>
        \A ij \in ValidForms(filename) :
            LET TAG == SubSeq(filename, 1, ij[1] - 1)
                DESCRIPTION == SubSeq(filename, ij[1] + 1, ij[2] - 1)
            IN  /\ ~parseOut.err
                /\ parseOut.tag = TAG
                /\ parseOut.description = DESCRIPTION
                /\ Len(parseOut.caption) = Len(TAG) + Len(DESCRIPTION) + 2
                /\ parseOut.caption[1] = "#"
                /\ \A k \in 1..Len(TAG) : parseOut.caption[1 + k] = TAG[k]
                /\ parseOut.caption[Len(TAG) + 2] = " "
                /\ \A k \in 1..Len(DESCRIPTION) :
                       parseOut.caption[Len(TAG) + 2 + k] =
                           IF DESCRIPTION[k] = "_" THEN " " ELSE DESCRIPTION[k]

\* a valid name whose description holds an underscore has been parsed
C10_Witness ==
    /\ parsePc = "parsed"
    /\ ValidForms(filename) # {}
    /\ \E k \in 1..Len(parseOut.description) : parseOut.description[k] = "_"


\* C11, the parse alone: ParseFilename returns an error exactly for the names
\* whose stem has no underscore or an empty tag or description.
C11_ParseRejectsInvalid ==
    parsePc = "parsed" => (parseOut.err <=> InvalidName(filename))

(***************************************************************************)
(* SpecSend: the two album uploads on every list of at most MaxItems       *)
(* items, every failure of every transport call and every interleaving of  *)
(* the upload goroutines                                                   *)
(***************************************************************************)
ItemPath(i) == IF i = 1 THEN Preview ELSE Part(i - 2)

ItemLists ==
    UNION {{[i \in 1..n |-> [FilePath |-> ItemPath(i), MediaType |-> types[i],
                             Caption |-> IF i = 1 THEN <<"#">> ELSE <<>>]] :
              types \in [1..n -> {"photo", "video", "audio"}]} : n \in 0..MaxItems}

InitSend ==
    /\ sendImpl \in {"multi", "group"}
    /\ items \in ItemLists
    /\ sendPc = "called"
    /\ task = <<>> /\ album = <<>> /\ errs = 0 /\ request = NoRequest
    /\ sendResult = NoResult /\ lateFirst = FALSE /\ netCalls = 0
    /\ ParseOff /\ GridOff /\ AuxOff /\ SplitOff /\ BatchOff

NextSend == UploadStep

SpecSend == InitSend /\ [][NextSend]_vars

SomeItemFailed == \E i \in 1..Len(task) : task[i] = "failed"

\* C2: if the transfer of any single item fails, the call returns an error and
\* the album-send request is never issued.
C2_ItemFailureFailsCall ==
    (SomeItemFailed /\ sendPc \in {"returned", "panicked"}) =>
        (sendPc = "returned" /\ sendResult.status = "err" /\ ~request.issued)

\* the half of C2 that the code keeps in every interleaving: after the failure
\* of any item no album-send request is issued
C2_NoPartialAlbum == SomeItemFailed => ~request.issued

\* C19: SendMultiMedia issues the album-send call, and returns, only after
\* every item upload task it spawned has finished, and no task is ever blocked
\* on reporting its error, for every number of items and every combination of
\* failing items.
C19_AllTasksJoined ==
    sendImpl = "multi" =>
        /\ \A i \in 1..Len(task) : task[i] # "blocked"
        /\ (request.issued \/ sendPc \in {"joined", "returned"}) =>
              \A i \in 1..Len(task) : Finished(task[i])
        /\ request.issued => Len(task) = Len(items)

\* SendMultiMedia returned after two of its tasks reported an error and a third succeeded
C19_Witness ==
    /\ sendImpl = "multi" /\ sendPc = "returned"
    /\ errs = 2 /\ Len(task) = 3
    /\ \E i \in 1..Len(task) : task[i] = "done"
    /\ \A i \in 1..Len(task) : Finished(task[i])

\* C3: the item list of the album-send request has the order of the MediaItem
\* list: position i of the request holds the transport handle of item i,
\* whatever order the item uploads complete in.
C3_RequestKeepsItemOrder ==
    request.issued =>
        /\ Len(request.MultiMedia) = Len(items)
        /\ \A i \in 1..Len(items) :
              /\ request.MultiMedia[i].file = items[i].FilePath
              /\ request.MultiMedia[i].message = items[i].Caption

\* SendMultiMedia issued the request after a later item finished before an earlier one
C3_Witness ==
    /\ sendImpl = "multi" /\ request.issued /\ lateFirst /\ Len(items) >= 2

\* the call returned success on a response that holds a message
SucceededOnMessage ==
    /\ sendPc = "returned" /\ sendResult.status = "ok"
    /\ \E k \in 1..Len(request.updates) : request.updates[k] # OtherUpdate

\* the first message of the response
FirstMessage ==
    LET k == CHOOSE k \in 1..Len(request.updates) :
                 /\ request.updates[k] # OtherUpdate
                 /\ \A j \in 1..(k - 1) : request.updates[j] = OtherUpdate
    IN  request.updates[k]

\* C18: a successful album upload returns the id of the first message in the
\* platform's response to the album-send call.
C18_ReturnsFirstMessageId ==
    (sendPc = "returned" /\ sendResult.status = "ok") =>
        /\ SucceededOnMessage
        /\ sendResult.id = FirstMessage

\* C18 for SendMediaGroup alone
C18_GroupReturnsFirstMessageId ==
    (sendImpl = "group" /\ sendPc = "returned" /\ sendResult.status = "ok") =>
        /\ SucceededOnMessage
        /\ sendResult.id = FirstMessage

\* SendMediaGroup returned the first of two messages that follow another update
C18_GroupReached ==
    /\ sendImpl = "group" /\ SucceededOnMessage
    /\ Len(request.updates) = 3 /\ sendResult.id = request.updates[2]

(***************************************************************************)
(* SpecSplit: the three segmenters on every small file size and limit,     *)
(* with every behaviour of the external utility                            *)
(***************************************************************************)
Returned(r) == [status |-> r.status, plan |-> r.plan, effects |-> r.effects,
                cur |-> 0, total |-> 0, segmentTime |-> r.segmentTime,
                rate |-> r.rate, durSec |-> 0, bitrate |-> 0,
                rateCmdOk |-> FALSE, rateOut |-> <<>>,
                tsFiles |-> <<>>, produced |-> 0, stale |-> {}]

SplitVideoEnvs ==
    [lookOk : BOOLEAN, mkdirOk : BOOLEAN, cmdOk : BOOLEAN, produced : SUBSET (0..MaxProduced)]

\* what ffprobe prints for format=bit_rate: nothing, "N/A", or a number
RateOutputs ==
    {ProbeLine(<<>>), ProbeLine(<<"N", "/", "A">>)} \cup {ProbeLine(Itoa(n)) : n \in 0..MaxRate}

\* a clip of ClipBytes bytes lasting ClipSeconds seconds
ClipBytes == 100000000
ClipSeconds == 50

V2Envs ==
    [mkdirOk : BOOLEAN, durOk : BOOLEAN, durSec : (0..MaxDur) \cup {ClipSeconds},
     rateCmdOk : BOOLEAN, rateOut : RateOutputs, genOk : BOOLEAN,
     tsCount : 0..(MaxProduced + 1), remuxFail : 0..(MaxProduced + 1)]

\* the base name of the video of the call
ClipBase == <<"b">>

\* segment files an earlier call may have left in a retained output directory:
\* one of the video b_a and one of the video d
StaleTs == {TsName(<<"b", "_", "a">>, 0), TsName(<<"d">>, 0)}

\* the call gets as far as filepath.Glob: GenerateTSFiles has returned nil
GlobReached(statOk, fileSize, maxSize, e) ==
    LET r == splitVideoV2(statOk, fileSize, maxSize, e)
    IN  e.genOk /\ r.status # "panic" /\ Len(r.effects) >= 5

\* the remux loop of the call ran over all of tsFiles
Remuxed(r) == r.status = "ok" /\ r.plan # <<Orig>>

CallSplitVideo ==
    /\ splitPc = "input" /\ splitIn.impl = "SplitVideo"
    /\ \E e \in SplitVideoEnvs :
          splitOut' = Returned(SplitVideo(splitIn.statOk, splitIn.fileSize, splitIn.maxSize, e))
    /\ splitPc' = "returned"
    /\ UNCHANGED <<splitIn, pureVars, sendVars, batchVars>>

CallSplitVideoV2 ==
    /\ splitPc = "input" /\ splitIn.impl = "splitVideoV2"
    /\ \E e \in V2Envs, stale \in SUBSET StaleTs :
          LET globbed == GlobReached(splitIn.statOk, splitIn.fileSize, splitIn.maxSize, e)
              tsFiles == IF globbed THEN TsFiles(ClipBase, e.tsCount, stale) ELSE <<>>
              r == splitVideoV2(splitIn.statOk, splitIn.fileSize, splitIn.maxSize,
                                IF globbed THEN [e EXCEPT !.tsCount = Len(tsFiles)] ELSE e)
          IN  /\ stale # {} => globbed
              /\ splitOut' = [Returned(r)
                              EXCEPT !.durSec = e.durSec,
                                     !.bitrate = GetVideoBitrate(e.rateCmdOk, e.rateOut).bitrate,
                                     !.rateCmdOk = e.rateCmdOk, !.rateOut = e.rateOut,
                                     !.tsFiles = IF Remuxed(r) THEN tsFiles ELSE <<>>,
                                     !.produced = IF Remuxed(r) THEN e.tsCount ELSE 0,
                                     !.stale = IF Remuxed(r) THEN stale ELSE {}]
    /\ splitPc' = "returned"
    /\ UNCHANGED <<splitIn, pureVars, sendVars, batchVars>>

\* video.splitVideo up to its loop: stat, the no-op test, MkdirAll, getVideoDuration
splitVideoEnter ==
    /\ splitPc = "input" /\ splitIn.impl = "splitVideo"
    /\ \E mkdirOk \in BOOLEAN, durOk \in BOOLEAN, total \in 0..MaxDur :
          IF ~splitIn.statOk
          THEN splitOut' = Returned(SegErr(<<"stat">>)) /\ splitPc' = "returned"
          ELSE IF NoSplitNeeded(splitIn.maxSize, splitIn.fileSize)
          THEN splitOut' = Returned(SegOk(<<Orig>>, <<"stat">>)) /\ splitPc' = "returned"
          ELSE IF ~mkdirOk
          THEN splitOut' = Returned(SegErr(<<"stat", "mkdir">>)) /\ splitPc' = "returned"
          ELSE IF ~durOk
          THEN /\ splitOut' = Returned(SegErr(<<"stat", "mkdir", "ffprobe">>))
               /\ splitPc' = "returned"
          ELSE /\ splitOut' = [NoSplitOut EXCEPT !.status = "running",
                                                 !.effects = <<"stat", "mkdir", "ffprobe">>,
                                                 !.total = total]
               /\ splitPc' = "loop"
    /\ UNCHANGED <<splitIn, pureVars, sendVars, batchVars>>

\* one iteration of "for curDuration < totalDuration": cut the next part, probe its duration
splitVideoLoop ==
    /\ splitPc = "loop"
    /\ splitOut.cur < splitOut.total
    /\ Len(splitOut.plan) < MaxLoop
    /\ \E cutOk \in BOOLEAN, durOk \in BOOLEAN, newDuration \in 0..MaxDur :
          IF ~cutOk
          THEN /\ splitOut' = Returned(SegErr(Append(splitOut.effects, "ffmpeg")))
               /\ splitPc' = "returned"
          ELSE IF ~durOk
          THEN /\ splitOut' = Returned(SegErr(splitOut.effects \o <<"ffmpeg", "ffprobe">>))
               /\ splitPc' = "returned"
          ELSE /\ splitOut' = [splitOut EXCEPT
                                  !.plan = Append(@, Part(Len(@))),
                                  !.effects = @ \o <<"ffmpeg", "ffprobe">>,
                                  !.cur = @ + newDuration]
               /\ splitPc' = "loop"
    /\ UNCHANGED <<splitIn, pureVars, sendVars, batchVars>>

\* the loop condition fails: return result, nil
splitVideoExit ==
    /\ splitPc = "loop"
    /\ ~(splitOut.cur < splitOut.total)
    /\ splitOut' = [splitOut EXCEPT !.status = "ok"]
    /\ splitPc' = "returned"
    /\ UNCHANGED <<splitIn, pureVars, sendVars, batchVars>>

InitSplit ==
    /\ splitIn \in [impl : {"SplitVideo", "splitVideo", "splitVideoV2"}, statOk : BOOLEAN,
                     fileSize : 0..MaxSize, maxSize : (-1)..MaxSize]
                    \cup [impl : {"splitVideoV2"}, statOk : BOOLEAN,
                          fileSize : {ClipBytes}, maxSize : (-1)..MaxSize]
    /\ splitPc = "input"
    /\ splitOut = NoSplitOut
    /\ ParseOff /\ GridOff /\ AuxOff /\ SendOff /\ BatchOff

NextSplit ==
    \/ CallSplitVideo
    \/ CallSplitVideoV2
    \/ splitVideoEnter
    \/ splitVideoLoop
    \/ splitVideoExit

SpecSplit == InitSplit /\ [][NextSplit]_vars

\* C7: every plan a segmenter returns without error holds at least one segment.
C7_PlanNeverEmpty ==
    (splitPc = "returned" /\ splitOut.status = "ok") => Len(splitOut.plan) >= 1

\* the call got past both probes of a file larger than a positive maxSize
PastProbes ==
    /\ splitPc = "returned" /\ splitIn.impl = "splitVideoV2"
    /\ splitIn.maxSize > 0 /\ splitIn.fileSize > splitIn.maxSize
    /\ splitOut.status = "panic" \/ Len(splitOut.effects) >= 5

\* the bitrate the claim names b is defined and positive
RateDefined ==
    \/ splitOut.bitrate > 0
    \/ splitOut.durSec > 0 /\ (splitIn.fileSize * 8) \div splitOut.durSec > 0

ClaimedRate ==
    IF splitOut.bitrate > 0 THEN splitOut.bitrate
    ELSE (splitIn.fileSize * 8) \div splitOut.durSec

ClaimedSegmentTime ==
    IF (splitIn.maxSize * 8) \div ClaimedRate >= 1
    THEN (splitIn.maxSize * 8) \div ClaimedRate ELSE 1

\* C15: when a file exceeds maxSize, for every positive file size, maxSize and
\* every probed duration the external utility is handed a segment duration,
\* and it is max(1, floor(maxSize*8 / b)), b being the probed bitrate when
\* positive and otherwise floor(fileSize*8 / durationSeconds).
C15_SegmentDuration ==
    PastProbes =>
        /\ splitOut.status # "panic"
        /\ Len(splitOut.effects) >= 5 /\ splitOut.effects[5] = "ffmpeg"
        /\ RateDefined => splitOut.segmentTime = ClaimedSegmentTime

\* C15, the part that holds: whenever b is defined and positive the utility is
\* handed max(1, floor(maxSize*8 / b)).
C15_SegmentDurationWhenDefined ==
    (PastProbes /\ RateDefined) =>
        /\ splitOut.status # "panic"
        /\ splitOut.effects[5] = "ffmpeg"
        /\ splitOut.segmentTime = ClaimedSegmentTime
        /\ splitOut.rate = ClaimedRate

\* C15, the worked example: ClipBytes bytes, ClipSeconds seconds, probed
\* bitrate 0 give the estimate 16*10^6 bit/s.
C15_ScenarioD ==
    (PastProbes /\ splitIn.fileSize = ClipBytes /\ splitOut.durSec = ClipSeconds
     /\ splitOut.bitrate = 0) => splitOut.rate = 16000000

C15_ScenarioDReached ==
    PastProbes /\ splitIn.fileSize = ClipBytes /\ splitOut.durSec = ClipSeconds
    /\ splitOut.bitrate = 0 /\ splitOut.rate = 16000000

\* the bitrate query ran and printed an empty or non-numeric value
NoBitrateMetadata ==
    /\ splitPc = "returned" /\ splitIn.impl = "splitVideoV2"
    /\ Len(splitOut.effects) >= 4
    /\ splitOut.rateCmdOk
    /\ ParseInt(TrimSpace(splitOut.rateOut)).err

\* C21: when the bitrate query yields an empty or non-numeric value, the probe
\* reports 0 without error and segmentation goes on with the estimated
\* bitrate: the external utility is invoked with the segment time of the estimate.
C21_NoMetadataContinues ==
    (/\ NoBitrateMetadata /\ splitOut.durSec > 0
     /\ (splitIn.fileSize * 8) \div splitOut.durSec > 0) =>
        /\ Len(splitOut.effects) >= 5
        /\ splitOut.rate = (splitIn.fileSize * 8) \div splitOut.durSec

\* a bitrate reported as the number 0 does make the segmenter use the estimate
C21_ZeroBitrateEstimates ==
    (/\ splitPc = "returned" /\ splitIn.impl = "splitVideoV2"
     /\ Len(splitOut.effects) >= 4 /\ splitOut.rateCmdOk
     /\ TrimSpace(splitOut.rateOut) = Itoa(0) /\ splitOut.durSec > 0
     /\ (splitIn.fileSize * 8) \div splitOut.durSec > 0) =>
        /\ Len(splitOut.effects) >= 5
        /\ splitOut.rate = (splitIn.fileSize * 8) \div splitOut.durSec

\* every empty or non-numeric value makes the probe, and the segmenter, fail
C21_NoMetadataFails ==
    NoBitrateMetadata => (splitOut.status = "err" /\ Len(splitOut.effects) = 4)

\* C29: the plan of splitVideoV2 contains only segments cut from the file
\* during the current call: with a retained output directory, segment files
\* left by an earlier file, one whose base name extends the current base name
\* with an underscore included, never appear in the plan.
C29_PlanOnlyCurrentSegments ==
    (splitPc = "returned" /\ splitIn.impl = "splitVideoV2" /\ splitOut.status = "ok"
        /\ splitOut.plan # <<Orig>>) =>
        /\ Len(splitOut.plan) = splitOut.produced
        /\ Range(splitOut.tsFiles) = WrittenTs(ClipBase, splitOut.produced)

\* C29 for leftovers of a file with an unrelated base name
C29_UnrelatedLeftoverIgnored ==
    (splitPc = "returned" /\ splitIn.impl = "splitVideoV2" /\ splitOut.status = "ok"
        /\ splitOut.plan # <<Orig>> /\ splitOut.stale \subseteq {TsName(<<"d">>, 0)}) =>
        /\ Len(splitOut.plan) = splitOut.produced
        /\ Range(splitOut.tsFiles) = WrittenTs(ClipBase, splitOut.produced)

\* a call cut two segments next to a leftover of the video d
C29_UnrelatedLeftoverReached ==
    /\ splitPc = "returned" /\ splitIn.impl = "splitVideoV2" /\ splitOut.status = "ok"
    /\ splitOut.stale = {TsName(<<"d">>, 0)} /\ splitOut.produced = 2
    /\ Len(splitOut.plan) = 2

\* C8: whenever maxSize <= 0 or fileSize <= maxSize the segmenter returns the
\* plan that is exactly the original path, having invoked no external utility
\* and created no file or directory (its only operation is the stat that reads
\* the file size).
C8_NoOpPlan ==
    (splitIn.statOk /\ (splitIn.maxSize <= 0 \/ splitIn.fileSize <= splitIn.maxSize)) =>
        /\ splitPc # "loop"
        /\ splitPc = "returned" =>
              /\ splitOut.status = "ok"
              /\ splitOut.plan = <<Orig>>
              /\ splitOut.effects = <<"stat">>

\* a call with no limit configured (maxSize <= 0) on a non-empty file has returned
C8_Witness ==
    /\ splitPc = "returned"
    /\ splitIn.statOk /\ splitIn.maxSize <= 0 /\ splitIn.fileSize > 0
    /\ splitOut.plan = <<Orig>>


(***************************************************************************)
(* SpecGrid: ComposeGrid on every frame count up to MaxFrames and every    *)
(* pair of dimensions in -1..MaxDim, under every failure of its file       *)
(* operations                                                              *)
(***************************************************************************)
GridEnvs ==
    [firstOk : BOOLEAN, loadFail : 0..MaxFrames, createOk : BOOLEAN, encodeOk : BOOLEAN]

CallComposeGrid ==
    /\ gridPc = "input"
    /\ \E e \in GridEnvs : gridOut' = ComposeGrid(gridIn.frames, gridIn.cols, gridIn.rows, e)
    /\ gridPc' = "returned"
    /\ UNCHANGED <<gridIn, parseVars, auxVars, splitVars, sendVars, batchVars>>

InitGrid ==
    /\ gridIn \in [frames : 0..MaxFrames, cols : (-1)..MaxDim, rows : (-1)..MaxDim]
    /\ gridPc = "input"
    /\ gridOut = NoGridOut
    /\ ParseOff /\ AuxOff /\ SplitOff /\ SendOff /\ BatchOff

NextGrid == CallComposeGrid

SpecGrid == InitGrid /\ [][NextGrid]_vars

\* C14: when the number of frames differs from cols*rows, ComposeGrid fails and
\* has loaded no frame, drawn nothing and not created the output file.
C14_MismatchFailsBeforeOutput ==
    (gridPc = "returned" /\ gridIn.frames # gridIn.cols * gridIn.rows) =>
        /\ gridOut.err
        /\ \A k \in 1..Len(gridOut.effects) :
              gridOut.effects[k] \notin {"load", "draw", "create", "encode"}

\* ComposeGrid returned for more frames than the cells of a proper grid
C14_Witness ==
    /\ gridPc = "returned"
    /\ gridIn.cols > 0 /\ gridIn.rows > 0
    /\ gridIn.frames > gridIn.cols * gridIn.rows
    /\ gridOut.err /\ gridOut.effects = <<>>

(***************************************************************************)
(* Relocation of files into the done directory: MoveFile, moveOrCopy,      *)
(* copyFile and MoveVideoFiles of internal/fileprocessor, one file system  *)
(* call per step.  File 0 is the original, files 1..additional are the     *)
(* additionalFiles.  src[i] tells whether the source of file i exists;     *)
(* dst[i] is the state of its destination: "none", "renamed" (the source   *)
(* itself under its new name), "created" (empty), "partial", "written"     *)
(* (complete but not synced) or "synced".  ops[i] lists the calls made     *)
(* for file i.                                                             *)
(***************************************************************************)
MoveImpls == {"MoveFile", "moveOrCopy", "MoveVideoFiles", "video.MoveVideoFiles"}

\* the uploaders that take additionalFiles
MoveVideoImpls == {"MoveVideoFiles", "video.MoveVideoFiles"}

\* move of internal/video is os.Rename alone; MoveFile and moveOrCopy of
\* internal/fileprocessor fall back to copyFile
HasCopyFallback(impl) == impl # "video.MoveVideoFiles"

MoveFiles == 0..moveIn.additional

\* copyFile ends with `return destFile.Sync()`: the caller goes on to
\* os.Remove only when the sync succeeded
AfterSyncIgnored(syncOk) == "remove"
AfterSync(syncOk) == IF syncOk THEN "remove" ELSE "failed"

\* Processor.MoveVideoFiles returns the error of the original and only logs
\* the error of an additional file; video.MoveVideoFiles returns both
Fatal(impl, file) == impl # "MoveVideoFiles" \/ file = 0

\* the relocation of the current file has ended (failed or not): return,
\* or go on with the next additional file
FileEnded(st, bad) ==
    LET logged == IF bad /\ ~Fatal(moveIn.impl, st.file)
                  THEN [st EXCEPT !.log = Append(@, st.file)] ELSE st
    IN  IF bad /\ Fatal(moveIn.impl, st.file)
        THEN [pc |-> "returned", st |-> [st EXCEPT !.err = TRUE]]
        ELSE IF st.file < moveIn.additional
        THEN [pc |-> "rename", st |-> [logged EXCEPT !.file = @ + 1]]
        ELSE [pc |-> "returned", st |-> logged]

Called(st, op) == [st EXCEPT !.ops[st.file + 1] = Append(@, op)]

MoveStep(next, st) ==
    /\ movePc' = next
    /\ moveSt' = st
    /\ UNCHANGED <<moveIn, frameVars, progVars>>
    /\ UNCHANGED <<parseVars, gridVars, splitVars, sendVars, batchVars>>

MoveEnd(st, bad) == MoveStep(FileEnded(st, bad).pc, FileEnded(st, bad).st)

\* os.Rename(src, dst)
MoveRename ==
    /\ movePc = "rename"
    /\ \E ok \in BOOLEAN :
          LET st == Called(moveSt, "rename")
          IN  IF ok
              THEN MoveEnd([st EXCEPT !.src[st.file + 1] = FALSE,
                                      !.dst[st.file + 1] = "renamed"], FALSE)
              ELSE IF HasCopyFallback(moveIn.impl) THEN MoveStep("open", st)
              ELSE MoveEnd(st, TRUE)

\* copyFile: os.Open(src)
CopyOpen ==
    /\ movePc = "open"
    /\ \E ok \in BOOLEAN :
          LET st == Called(moveSt, "open")
          IN  IF ok THEN MoveStep("create", st) ELSE MoveEnd(st, TRUE)

\* copyFile: os.Create(dst)
CopyCreate ==
    /\ movePc = "create"
    /\ \E ok \in BOOLEAN :
          LET st == Called(moveSt, "create")
          IN  IF ok THEN MoveStep("copy", [st EXCEPT !.dst[st.file + 1] = "created"])
              ELSE MoveEnd(st, TRUE)

\* copyFile: io.Copy(destFile, sourceFile)
CopyData ==
    /\ movePc = "copy"
    /\ \E ok \in BOOLEAN :
          LET st == Called(moveSt, "copy")
          IN  IF ok THEN MoveStep("sync", [st EXCEPT !.dst[st.file + 1] = "written"])
              ELSE MoveEnd([st EXCEPT !.dst[st.file + 1] = "partial"], TRUE)

\* copyFile: destFile.Sync()
CopySync ==
    /\ movePc = "sync"
    /\ \E ok \in BOOLEAN :
          LET st == Called(moveSt, "sync")
              synced == IF ok THEN [st EXCEPT !.dst[st.file + 1] = "synced"] ELSE st
          IN  IF AfterSync(ok) = "remove" THEN MoveStep("remove", synced)
              ELSE MoveEnd(synced, TRUE)

\* os.Remove(src)
MoveRemove ==
    /\ movePc = "remove"
    /\ \E ok \in BOOLEAN :
          LET st == Called(moveSt, "remove")
          IN  IF ok THEN MoveEnd([st EXCEPT !.src[st.file + 1] = FALSE], FALSE)
              ELSE MoveEnd(st, TRUE)

InitMove ==
    /\ moveIn \in {[impl |-> i, additional |-> n] :
                       i \in {"MoveFile", "moveOrCopy"}, n \in {0}}
                 \cup [impl : MoveVideoImpls, additional : 0..MaxDerived]
    /\ movePc = "rename"
    /\ moveSt = [file |-> 0,
                 src |-> [i \in 1..(moveIn.additional + 1) |-> TRUE],
                 dst |-> [i \in 1..(moveIn.additional + 1) |-> "none"],
                 ops |-> [i \in 1..(moveIn.additional + 1) |-> <<>>],
                 err |-> FALSE, log |-> <<>>]
    /\ FramesOff /\ ProgressOff
    /\ ParseOff /\ GridOff /\ SplitOff /\ SendOff /\ BatchOff

NextMove ==
    \/ MoveRename
    \/ CopyOpen
    \/ CopyCreate
    \/ CopyData
    \/ CopySync
    \/ MoveRemove

SpecMove == InitMove /\ [][NextMove]_vars

CopyOps == {"open", "create", "copy", "sync"}

\* C22: a move tries the rename first and copies only when the rename failed;
\* the source is removed only after the copy was fully written and synced,
\* and a failed copy or sync leaves the source in place.
C22_RenameThenCopyThenRemove ==
    movePc # "off" =>
        \A i \in 1..Len(moveSt.ops) :
            LET ops == moveSt.ops[i]
            IN  /\ ops # <<>> => ops[1] = "rename"
                /\ \A k \in 2..Len(ops) : ops[k] # "rename"
                /\ (\E k \in 1..Len(ops) : ops[k] \in CopyOps) => moveSt.dst[i] # "renamed"
                /\ (\E k \in 1..Len(ops) : ops[k] = "remove") => moveSt.dst[i] = "synced"
                /\ ~moveSt.src[i] => moveSt.dst[i] \in {"renamed", "synced"}
                /\ moveSt.dst[i] \in {"created", "partial", "written"} => moveSt.src[i]

\* a move fell back to the copy, synced it and removed the source
C22_CopiedAndRemoved ==
    /\ movePc = "returned" /\ moveIn.impl \in {"MoveFile", "moveOrCopy"}
    /\ moveSt.ops[1] = <<"rename", "open", "create", "copy", "sync", "remove">>
    /\ ~moveSt.src[1] /\ moveSt.dst[1] = "synced" /\ ~moveSt.err

\* the sync of the copy failed: the move failed and the source is still there
C22_SyncFailedKeepsSource ==
    /\ movePc = "returned" /\ moveIn.impl \in {"MoveFile", "moveOrCopy"}
    /\ moveSt.ops[1] = <<"rename", "open", "create", "copy", "sync">>
    /\ moveSt.src[1] /\ moveSt.dst[1] = "written" /\ moveSt.err

OriginalMoved == ~moveSt.src[1] /\ moveSt.dst[1] \in {"renamed", "synced"}

\* C23: in MoveVideoFiles, once the original has been moved, a failure to move
\* a derived file is only logged: the original stays in the done area, the
\* remaining derived files are still attempted and the call reports success.
C23_DerivedFailureOnlyLogged ==
    (movePc = "returned" /\ moveIn.impl \in MoveVideoImpls /\ OriginalMoved) =>
        /\ ~moveSt.err
        /\ \A i \in 2..Len(moveSt.ops) : moveSt.ops[i] # <<>>

\* C23 for Processor.MoveVideoFiles alone
C23_ProcessorLogsOnly ==
    (movePc = "returned" /\ moveIn.impl = "MoveVideoFiles" /\ OriginalMoved) =>
        /\ ~moveSt.err
        /\ \A i \in 2..Len(moveSt.ops) : moveSt.ops[i] # <<>>

\* Processor.MoveVideoFiles returned after the move of the first derived file
\* failed and the move of the second one succeeded
C23_ProcessorLoggedAndWentOn ==
    /\ movePc = "returned" /\ moveIn.impl = "MoveVideoFiles" /\ OriginalMoved
    /\ moveIn.additional = 2 /\ moveSt.log = <<1>>
    /\ ~moveSt.src[3] /\ ~moveSt.err

(***************************************************************************)
(* ExtractFrames of internal/video/thumbnail.go ("thumbnail") and of       *)
(* internal/ffmpeg ("ffmpeg"), one ffmpeg run per step.  Frame i is the    *)
(* file frame_00i.jpg of the output directory; onDisk is the set of frames *)
(* that exist.                                                             *)
(***************************************************************************)
FrameImpls == {"thumbnail", "ffmpeg"}

\* a failure path that leaves the extracted frames behind
KeepExtracted(onDisk, framePaths) == onDisk
\* "for _, path := range framePaths { os.Remove(path) }"; the result of
\* os.Remove is discarded
RemoveExtracted(onDisk, framePaths) == onDisk \ Range(framePaths)

FrameStep(next, st) ==
    /\ framePc' = next
    /\ frameSt' = st
    /\ UNCHANGED <<frameIn, moveVars, progVars>>
    /\ UNCHANGED <<parseVars, gridVars, splitVars, sendVars, batchVars>>

\* the checks before the loop: count, LookPath, MkdirAll and the duration
\* probe in internal/video; the duration alone in internal/ffmpeg
ExtractStart ==
    /\ framePc = "call"
    /\ \E toolsOk \in BOOLEAN, mkdirOk \in BOOLEAN, probeOk \in BOOLEAN :
          LET refused ==
                  IF frameIn.impl = "thumbnail"
                  THEN \/ frameIn.count <= 0
                       \/ ~toolsOk \/ ~mkdirOk \/ ~probeOk
                       \/ frameIn.duration <= 0
                  ELSE frameIn.duration <= 0
          IN  IF refused THEN FrameStep("returned", [frameSt EXCEPT !.err = TRUE])
              ELSE FrameStep("loop", frameSt)

\* one iteration "for i := 0; i < count; i++": ffmpeg writes frame i; on a
\* failure the frames appended so far are removed and nil, err is returned.
\* The failed run may leave its own output file behind.
ExtractFrame ==
    /\ framePc = "loop" /\ frameSt.i < frameIn.count
    /\ \E ok \in BOOLEAN, left \in BOOLEAN :
          LET i == frameSt.i
          IN  IF ok
              THEN FrameStep("loop", [frameSt EXCEPT !.i = i + 1,
                                                     !.framePaths = Append(@, i),
                                                     !.onDisk = @ \cup {i}])
              ELSE FrameStep("returned",
                       [frameSt EXCEPT !.onDisk = RemoveExtracted(@, frameSt.framePaths)
                                                      \cup (IF left THEN {i} ELSE {}),
                                       !.failedAt = i,
                                       !.err = TRUE])

\* "return framePaths, nil"
ExtractReturn ==
    /\ framePc = "loop" /\ frameSt.i >= frameIn.count
    /\ FrameStep("returned", [frameSt EXCEPT !.ret = frameSt.framePaths])

InitFrames ==
    /\ frameIn \in [impl : FrameImpls, count : 0..MaxCount, duration : 0..MaxDur]
    /\ framePc = "call"
    /\ frameSt = NoFrameSt
    /\ MoveOff /\ ProgressOff
    /\ ParseOff /\ GridOff /\ SplitOff /\ SendOff /\ BatchOff

NextFrames ==
    \/ ExtractStart
    \/ ExtractFrame
    \/ ExtractReturn

SpecFrames == InitFrames /\ [][NextFrames]_vars

ProgressImpls == {"mpb", "progressbar"}

Workers == {"w1", "w2"}
UploadIds == 1..MaxUploads

\* the totals of the reports: unknown (stream upload), empty, or MaxBytes
Totals == {-1, 0, MaxBytes}

Larger(a, b) == IF a >= b THEN a ELSE b

\* "st.Total > 0" in the mpb version, "st.Total >= 0" in the progressbar version
KnownTotal(impl, total) == IF impl = "mpb" THEN total > 0 ELSE total >= 0

\* a lock that never waits
NeverWaits(m) == TRUE
\* p.mu.Lock() returns when no goroutine holds the mutex
CanLock(m) == m = "free"

\* reading a Go map yields the zero value for a missing key
LastOf(id) == IF reg.last[id] < 0 THEN 0 ELSE reg.last[id]

ProgStep(t, next, st, m, r) ==
    /\ thr' = [thr EXCEPT ![t] = [pc |-> next, st |-> st]]
    /\ mu' = m
    /\ reg' = r
    /\ UNCHANGED <<progIn, moveVars, frameVars>>
    /\ UNCHANGED <<parseVars, gridVars, splitVars, sendVars, batchVars>>

\* the uploader reports the progress of an upload: Chunk is called
ChunkCall(t) ==
    /\ t \in Workers /\ thr[t].pc = "idle" /\ reg.calls < MaxCalls
    /\ \E id \in UploadIds, uploaded \in 0..MaxBytes :
          /\ progIn.total[id] >= 0 => uploaded <= progIn.total[id]
          /\ ProgStep(t, "lock", [ID |-> id, Total |-> progIn.total[id], Uploaded |-> uploaded],
                      mu, [reg EXCEPT !.calls = @ + 1])

\* p.mu.Lock()
ChunkLock(t) ==
    /\ t \in Workers /\ thr[t].pc = "lock" /\ CanLock(mu)
    /\ ProgStep(t, "ensure", thr[t].st, t, reg)

\* "bar, ok := p.bars[st.ID]", the creation of the bar and of its entries,
\* and "if bar == nil { return nil }"
ChunkEnsure(t) ==
    /\ t \in Workers /\ thr[t].pc = "ensure"
    /\ LET st == thr[t].st
           create == ~reg.bars[st.ID] /\ KnownTotal(progIn.impl, st.Total)
           noted == [reg EXCEPT !.seen[st.ID] = Larger(@, st.Uploaded)]
           r == IF create
                THEN [noted EXCEPT !.bars[st.ID] = TRUE, !.last[st.ID] = 0,
                                   !.added[st.ID] = 0, !.since[st.ID] = 0]
                ELSE noted
       IN  ProgStep(t, IF r.bars[st.ID] THEN "update" ELSE "unlock", st, mu, r)

\* "delta := st.Uploaded - prev; if delta > 0 { bar add delta; p.last[st.ID] = st.Uploaded }"
ChunkUpdate(t) ==
    /\ t \in Workers /\ thr[t].pc = "update"
    /\ LET st == thr[t].st
           prev == LastOf(st.ID)
           delta == st.Uploaded - prev
           noted == [reg EXCEPT !.since[st.ID] = Larger(@, st.Uploaded)]
           r == IF delta > 0
                THEN [noted EXCEPT !.added[st.ID] = @ + delta,
                                   !.last[st.ID] = st.Uploaded,
                                   !.high[st.ID] = Larger(@, st.Uploaded)]
                ELSE noted
       IN  ProgStep(t, "finish", st, mu, r)

\* "if total known && st.Uploaded >= st.Total { ...; delete(p.bars, st.ID);
\* delete(p.last, st.ID); ... }"
ChunkFinish(t) ==
    /\ t \in Workers /\ thr[t].pc = "finish"
    /\ LET st == thr[t].st
           r == IF KnownTotal(progIn.impl, st.Total) /\ st.Uploaded >= st.Total
                THEN [reg EXCEPT !.bars[st.ID] = FALSE, !.last[st.ID] = -1]
                ELSE reg
       IN  ProgStep(t, "unlock", st, mu, r)

\* the deferred p.mu.Unlock()
ChunkUnlock(t) ==
    /\ t \in Workers /\ thr[t].pc = "unlock"
    /\ ProgStep(t, "idle", thr[t].st, "free", reg)

\* Shutdown of the mpb version: p.mu.Lock()
ShutdownLock ==
    /\ progIn.impl = "mpb" /\ thr["main"].pc = "idle" /\ CanLock(mu)
    /\ ProgStep("main", "abort", thr["main"].st, "main", reg)

\* Shutdown: every bar of p.bars is aborted and p.p.Wait() returns; the maps
\* are left as they are
ShutdownAbort ==
    /\ thr["main"].pc = "abort"
    /\ ProgStep("main", "unlock", thr["main"].st, mu, reg)

\* Shutdown: the deferred p.mu.Unlock()
ShutdownUnlock ==
    /\ thr["main"].pc = "unlock"
    /\ ProgStep("main", "done", thr["main"].st, "free", reg)

NoState == [ID |-> 0, Total |-> 0, Uploaded |-> 0]

InitProgress ==
    /\ progIn \in [impl : ProgressImpls, total : [UploadIds -> Totals]]
    /\ mu = "free"
    /\ thr = [t \in Workers \cup {"main"} |-> [pc |-> "idle", st |-> NoState]]
    /\ reg = [bars |-> [id \in UploadIds |-> FALSE], last |-> [id \in UploadIds |-> -1],
              added |-> [id \in UploadIds |-> 0], seen |-> [id \in UploadIds |-> 0],
              since |-> [id \in UploadIds |-> 0], high |-> [id \in UploadIds |-> 0],
              calls |-> 0]
    /\ MoveOff /\ FramesOff
    /\ ParseOff /\ GridOff /\ SplitOff /\ SendOff /\ BatchOff

NextProgress ==
    \/ \E t \in Workers : ChunkCall(t)
    \/ \E t \in Workers : ChunkLock(t)
    \/ \E t \in Workers : ChunkEnsure(t)
    \/ \E t \in Workers : ChunkUpdate(t)
    \/ \E t \in Workers : ChunkFinish(t)
    \/ \E t \in Workers : ChunkUnlock(t)
    \/ ShutdownLock
    \/ ShutdownAbort
    \/ ShutdownUnlock

SpecProgress == InitProgress /\ [][NextProgress]_vars

\* goroutine t is between p.mu.Lock() and the deferred p.mu.Unlock()
InsideLock(t) ==
    IF t = "main" THEN thr[t].pc \in {"abort", "unlock"}
    ELSE thr[t].pc \in {"ensure", "update", "finish", "unlock"}

\* the callback of goroutine t reported the known total as transferred
ReachedTotal(t) ==
    /\ KnownTotal(progIn.impl, thr[t].st.Total)
    /\ thr[t].st.Uploaded >= thr[t].st.Total

\* C26: every insert, update and delete of a progress entry happens while the
\* goroutine holds the registry's mutex, so no two goroutines are inside Chunk
\* or Shutdown at the same time, and when a callback that reported the known
\* total as transferred is about to return, the item's entry has been deleted.
C26_RegistryUnderMutex ==
    progIn.impl # "none" =>
        /\ \A t, u \in DOMAIN thr : (InsideLock(t) /\ InsideLock(u)) => t = u
        /\ \A t \in DOMAIN thr : InsideLock(t) => mu = t
        /\ \A t \in Workers :
              (thr[t].pc = "unlock" /\ ReachedTotal(t)) =>
                  (~reg.bars[thr[t].st.ID] /\ reg.last[thr[t].st.ID] = -1)

\* one callback has just deleted the entry of an item whose total was reached
\* while the callback of another goroutine for the same item waits for the mutex
C26_DeletedWhileOtherWaits ==
    /\ thr["w1"].pc = "unlock" /\ ReachedTotal("w1") /\ thr["w1"].st.Total > 0
    /\ thr["w2"].pc = "lock" /\ thr["w2"].st.ID = thr["w1"].st.ID
    /\ mu = "w1" /\ ~reg.bars[thr["w1"].st.ID]

\* C30: for each upload id that has a progress entry, the recorded last-uploaded
\* value never decreases and the bytes added to the item's bar sum to the
\* largest Uploaded value reported so far, whatever the order of the callbacks.
C30_AddedIsLargestReported ==
    (progIn.impl # "none" /\ mu = "free") =>
        \A id \in UploadIds :
            reg.bars[id] =>
                /\ reg.last[id] = reg.high[id]
                /\ reg.added[id] = reg.seen[id]

\* C30 for the lifetime of one entry: since the entry was created, the recorded
\* value and the bytes added to the bar are the largest Uploaded reported
C30_WithinOneEntry ==
    (progIn.impl # "none" /\ mu = "free") =>
        \A id \in UploadIds :
            reg.bars[id] => (reg.last[id] = reg.since[id] /\ reg.added[id] = reg.since[id])

====
